---------------------------- MODULE Spec2Model ----------------------------
(***************************************************************************)
(* EEWS performance analyzer (src/eews_analyzer.py) and the MCP server's   *)
(* analyzer cache (src/mcp_server/server.py).                              *)
(*                                                                         *)
(* Number representation.  Python floats are modelled in fixed point:      *)
(*   longitude, latitude : integer multiples of 0.005 degree               *)
(*   distance            : integer multiples of 0.01 km                    *)
(*   magnitude           : integer multiples of 0.1                        *)
(*   depth               : integer multiples of 0.1 km                     *)
(*   processing time     : integer multiples of 0.1 s                      *)
(* np.nan is the distinguished value NaN, which every arithmetic operator  *)
(* below propagates.  A quotient the code leaves as a float (a rate, a     *)
(* mean, a variance) is kept as an exact fraction <<numerator,             *)
(* denominator>>.                                                          *)
(***************************************************************************)
EXTENDS Integers, Sequences, FiniteSets, TLC

VARIABLES
    boundary_lons,   \* EEWSAnalyzer.boundary_lons
    boundary_lats,   \* EEWSAnalyzer.boundary_lats
    file_lines,      \* the lines of data_file, the first line included
    df,              \* EEWSAnalyzer.df (NoneDF until load_data)
    df_analyzed,     \* EEWSAnalyzer.df_analyzed (attribute absent until calculate_errors)
    results,         \* EEWSAnalyzer.results ({} until get_statistics)
    err,             \* the exception the last call raised, or "none"
    ci_pc,           \* check_inland: position of the running call
    ci_lon,          \* check_inland: argument lon
    ci_lat,          \* check_inland: argument lat
    ci_i,            \* check_inland: loop index i (1-based here)
    sta,             \* check_inland: the five flags
    result,          \* check_inland: local result
    ci_ret,          \* check_inland: returned value
    ci_visited,      \* check_inland: the boundary indices examined so far, in order
    cache,           \* server._analyzer_cache: is the data file's analyzer cached
    response,        \* server.call_tool: the statistics of the last tool response
    cd_args,         \* calculate_distance: the arguments of the last call (<<>> before any)
    cd_ret,          \* calculate_distance: the value the last call returned
    leg_i,           \* ana_forplot.py main loop: the number of lines read so far
    pro_time_files,  \* ana_forplot.py: the lines written to each pro_time_* file
    float_mags,      \* binary floating point: <<Catalog_Mag, EEW_Mag>> in tenths, per detected record
    float_results,   \* binary floating point: magnitude_error_mean and magnitude_error_rms
    plot_pc,         \* create_all_plots: 0 not called, k before its k-th try, 7 returned or left
    plots_attempted, \* create_all_plots: the plot functions called so far, in order
    plot_warnings    \* create_all_plots: the plot functions whose exception was caught

vars == <<boundary_lons, boundary_lats, file_lines, df, df_analyzed, results, err,
          ci_pc, ci_lon, ci_lat, ci_i, sta, result, ci_ret, ci_visited,
          cache, response,
          cd_args, cd_ret, leg_i, pro_time_files,
          float_mags, float_results,
          plot_pc, plots_attempted, plot_warnings>>

-----------------------------------------------------------------------------
(* Bounds of the model *)

MaxBoundary == 4
MaxLines == 2

-----------------------------------------------------------------------------
(* Fixed-point arithmetic *)

NaN == -2147483647

IsNaN(x) == x = NaN

Abs(x) == IF x < 0 THEN -x ELSE x

\* Body applied to a value that is computed once (a local variable).
With(value, Body(_)) == CHOOSE r \in { Body(v) : v \in {value} } : TRUE

\* x / d rounded toward zero: like IEEE rounding, the result of -x is minus
\* the result of x.
FDiv(x, d) == IF x < 0 THEN -((-x) \div d) ELSE x \div d

RECURSIVE SqrtSearch(_, _, _)
SqrtSearch(n, lo, hi) ==
    IF lo >= hi THEN lo
    ELSE LET half(mid) == IF mid * mid <= n THEN SqrtSearch(n, mid, hi)
                          ELSE SqrtSearch(n, lo, mid - 1)
         IN  With((lo + hi + 1) \div 2, half)

\* math.sqrt, to the distance unit
Sqrt(n) == LET root(v) == SqrtSearch(v, 0, 46340) IN With(n, root)

\* abs(a - b) on pandas columns: NaN when either side is NaN
AbsDiff(a, b) == IF IsNaN(a) \/ IsNaN(b) THEN NaN ELSE Abs(a - b)

-----------------------------------------------------------------------------
(* calculate_distance *)

\* c * avlat, with avlat = av2 / 400 degrees (av2 = lat1 + lat2 in 0.005
\* degree steps); a large c is divided first to stay within 32 bits
MulLat(c, av2) ==
    IF Abs(c) <= 200000 THEN FDiv(c * av2, 400)
    ELSE FDiv(FDiv(c, 40) * av2, 10)

\* a = 1.840708 + avlat*(0.0015269 + avlat*(-0.00034 + avlat*1.02337e-6)), in 1e-9
CoefA(av2) ==
    1840708000 + MulLat(1526900 + MulLat(-340000 + MulLat(1023, av2), av2), av2)

\* b = 1.843404 + avlat*(-6.93799e-5 + avlat*(8.79993e-6 + avlat*(-6.47527e-8))), in 1e-9
CoefB(av2) ==
    1843404000 + MulLat(-69380 + MulLat(8800 + MulLat(-65, av2), av2), av2)

\* A symmetric-looking but wrong distance: the scale is taken at lat1 alone.
calculate_distance_lat1(lat1, lon1, lat2, lon2) ==
    LET a == CoefA(lat1 + lat1)
        b == CoefB(lat1 + lat1)
        dx == FDiv(FDiv(a, 1000) * (lon2 - lon1) * 3, 100000)
        dy == FDiv(FDiv(b, 1000) * (lat2 - lat1) * 3, 100000)
    IN  Sqrt(dx * dx + dy * dy)


\* A distance kept away from zero by a small term under the root.
calculate_distance_eps(lat1, lon1, lat2, lon2) ==
    LET av2 == lat1 + lat2
        a == CoefA(av2)
        b == CoefB(av2)
        dx == FDiv(FDiv(a, 1000) * (lon2 - lon1) * 3, 100000)
        dy == FDiv(FDiv(b, 1000) * (lat2 - lat1) * 3, 100000)
    IN  Sqrt(dx * dx + dy * dy + 1)

\* dx = a * dlon * 60 and dy = b * dlat * 60 in 0.01 km: one 0.005 degree
\* step is 0.3 arc-minute, so dx = a * 1e-9 * steps * 0.3 * 100.
calculate_distance(lat1, lon1, lat2, lon2) ==
    LET av2 == lat1 + lat2
        dlat == lat2 - lat1
        dlon == lon2 - lon1
        delta(ab) ==
            LET a == ab[1]
                b == ab[2]
                dx == FDiv(FDiv(a, 1000) * dlon * 3, 100000)
                dy == FDiv(FDiv(b, 1000) * dlat * 3, 100000)
            IN  Sqrt(dx * dx + dy * dy)
    IN  With(<<CoefA(av2), CoefB(av2)>>, delta)

-----------------------------------------------------------------------------
(* check_inland *)

near_coast_line_dis == 100

ZeroSta == <<0, 0, 0, 0, 0>>

\* A flag update that forgets what earlier boundary points set.
StaUpdateNoAccumulate(s, x, y, dist) ==
    << IF x > 0 /\ y > 0 THEN 1 ELSE 0,
       IF x < 0 /\ y < 0 THEN 1 ELSE 0,
       IF x > 0 /\ y < 0 THEN 1 ELSE 0,
       IF x < 0 /\ y > 0 THEN 1 ELSE 0,
       IF dist < near_coast_line_dis THEN 1 ELSE s[5] >>

\* The five conditional assignments of one loop iteration (sta[0..4] are
\* s[1..5] here).
StaUpdate(s, x, y, dist) ==
    << IF x > 0 /\ y > 0 THEN 1 ELSE s[1],
       IF x < 0 /\ y < 0 THEN 1 ELSE s[2],
       IF x > 0 /\ y < 0 THEN 1 ELSE s[3],
       IF x < 0 /\ y > 0 THEN 1 ELSE s[4],
       IF dist < near_coast_line_dis THEN 1 ELSE s[5] >>

\* The flags after the iteration for boundary point i.
StaAfter(lons, lats, lon, lat, i, s) ==
    StaUpdate(s, lons[i] - lon, lats[i] - lat,
              calculate_distance(lat, lon, lats[i], lons[i]))


\* The quadrant flags added where the code multiplies them.
ExitConditionSum(s) == s[1] + s[2] + s[3] + s[4] = 1 \/ s[5] = 1

\* check == 1 or sta[4] == 1
ExitCondition(s) == s[1] * s[2] * s[3] * s[4] = 1 \/ s[5] = 1

\* The legacy loop bound (range(1, num_boundary)) never looks at the first point.
FirstIndexLegacy == 2

\* range(len(self.boundary_lons)) starts at the first boundary point.
FirstIndex == 1

RECURSIVE CheckInlandLoop(_, _, _, _, _, _)
CheckInlandLoop(lons, lats, lon, lat, i, s) ==
    IF i > Len(lons) THEN 0
    ELSE LET s2 == StaAfter(lons, lats, lon, lat, i, s)
         IN  IF ExitCondition(s2) THEN 1
             ELSE CheckInlandLoop(lons, lats, lon, lat, i + 1, s2)


\* check_inland without the test for missing boundary data.
CheckInlandOnUnguarded(lons, lats, lon, lat) ==
    IF CheckInlandLoop(lons, lats, lon, lat, FirstIndex, ZeroSta) = 1 THEN "True"
    ELSE "False"


\* check_inland with no answer where the loop finds nothing.
CheckInlandOnOffshoreNone(lons, lats, lon, lat) ==
    IF Len(lons) = 0 THEN "None"
    ELSE IF CheckInlandLoop(lons, lats, lon, lat, FirstIndex, ZeroSta) = 1 THEN "True"
    ELSE "None"

\* check_inland on given boundary lists: "None", "True" or "False".
CheckInlandOn(lons, lats, lon, lat) ==
    IF Len(lons) = 0 THEN "None"
    ELSE IF CheckInlandLoop(lons, lats, lon, lat, FirstIndex, ZeroSta) = 1 THEN "True"
    ELSE "False"

check_inland(lon, lat) == CheckInlandOn(boundary_lons, boundary_lats, lon, lat)

-----------------------------------------------------------------------------
(* The analyzer's attributes before they are assigned *)

\* self.df = None
NoneDF == [isNone |-> TRUE, columns |-> {}, rows |-> <<>>]

\* self.results = {}
NoResults == [isSet |-> FALSE]

-----------------------------------------------------------------------------
(* check_inland, one loop iteration at a time *)

civars == <<ci_pc, ci_lon, ci_lat, ci_i, sta, result, ci_ret, ci_visited>>
pipevars == <<file_lines, df, df_analyzed, results, err>>
servervars == <<cache, response>>
boundaryvars == <<boundary_lons, boundary_lats>>
distancevars == <<cd_args, cd_ret>>
legacyvars == <<leg_i, pro_time_files>>
floatvars == <<float_mags, float_results>>
plotvars == <<plot_pc, plots_attempted, plot_warnings>>

CheckInlandIdle ==
    /\ ci_pc = "idle" /\ ci_lon = 0 /\ ci_lat = 0 /\ ci_i = 0
    /\ sta = ZeroSta /\ result = 0 /\ ci_ret = "None" /\ ci_visited = <<>>

CheckInlandCall(lon, lat) ==
    /\ ci_pc = "idle"
    /\ ci_lon' = lon
    /\ ci_lat' = lat
    /\ ci_visited' = <<>>
    /\ IF Len(boundary_lons) = 0
       THEN /\ ci_pc' = "done"
            /\ ci_ret' = "None"
            /\ UNCHANGED <<ci_i, sta, result>>
       ELSE /\ sta' = ZeroSta
            /\ result' = 0
            /\ ci_i' = FirstIndex
            /\ ci_pc' = "loop"
            /\ UNCHANGED ci_ret
    /\ UNCHANGED <<boundaryvars, pipevars, servervars, distancevars, legacyvars, floatvars, plotvars>>

CheckInlandIter ==
    /\ ci_pc = "loop"
    /\ ci_i <= Len(boundary_lons)
    /\ LET s2 == StaAfter(boundary_lons, boundary_lats, ci_lon, ci_lat, ci_i, sta)
       IN  /\ sta' = s2
           /\ IF ExitCondition(s2)
              THEN result' = 1 /\ ci_pc' = "return" /\ UNCHANGED ci_i
              ELSE ci_i' = ci_i + 1 /\ UNCHANGED <<result, ci_pc>>
    /\ ci_visited' = Append(ci_visited, ci_i)
    /\ UNCHANGED <<ci_lon, ci_lat, ci_ret, boundaryvars, pipevars, servervars, distancevars, legacyvars, floatvars, plotvars>>

CheckInlandReturn ==
    /\ \/ ci_pc = "return"
       \/ ci_pc = "loop" /\ ci_i > Len(boundary_lons)
    /\ ci_ret' = (IF result = 1 THEN "True" ELSE "False")
    /\ ci_pc' = "done"
    /\ UNCHANGED <<ci_lon, ci_lat, ci_i, sta, result, ci_visited,
                   boundaryvars, pipevars, servervars, distancevars, legacyvars, floatvars, plotvars>>

-----------------------------------------------------------------------------
(* Inputs of the boundary classifier *)

\* A point dlon, dlat steps of 0.005 degree from (121.0 E, 23.0 N).
Pt(dlon, dlat) == <<24200 + dlon, 4600 + dlat>>

\* Boundary points: a diamond around Pt(2, 2), two corners under it and a
\* point one step from its centre.
BoundaryPts == { Pt(2, 0), Pt(4, 2), Pt(2, 4), Pt(0, 2),
                 Pt(0, 0), Pt(4, 0), Pt(2, 3) }

QueryPts == { Pt(2, 2), Pt(2, 1), Pt(6, 6) }

SeqsUpTo(S, n) == UNION { [1..k -> S] : k \in 0..n }

Lons(pts) == [i \in 1..Len(pts) |-> pts[i][1]]
Lats(pts) == [i \in 1..Len(pts) |-> pts[i][2]]

PipelineIdle ==
    /\ file_lines = <<>> /\ df = NoneDF /\ df_analyzed = NoneDF
    /\ results = NoResults /\ err = "none"

\* No tool has answered yet.
NoResponse == [tool |-> "", error |-> "none", stats |-> NoResults]

ServerIdle == cache = FALSE /\ response = NoResponse

\* calculate_distance has not been called.
DistanceIdle == cd_args = << >> /\ cd_ret = 0

\* The names of the six processing-time files of ana_forplot.py.
ProTimeFileNames ==
    { "pro_time_05", "pro_time_10", "pro_time_15", "pro_time_20", "pro_time_25",
      "pro_time_30" }

\* ana_forplot.py has opened its output files and read no line yet.
LegacyIdle == leg_i = 0 /\ pro_time_files = [f \in ProTimeFileNames |-> << >>]

\* No statistics have been computed in binary floating point.
NoFloatResults == [isSet |-> FALSE]

FloatIdle == float_mags = << >> /\ float_results = NoFloatResults

\* create_all_plots has not been called.
PlotIdle == plot_pc = 0 /\ plots_attempted = << >> /\ plot_warnings = {}

InitInland ==
    /\ \E pts \in SeqsUpTo(BoundaryPts, MaxBoundary) :
          boundary_lons = Lons(pts) /\ boundary_lats = Lats(pts)
    /\ CheckInlandIdle
    /\ PipelineIdle
    /\ ServerIdle
    /\ DistanceIdle
    /\ LegacyIdle
    /\ FloatIdle
    /\ PlotIdle

NextInland ==
    \/ \E q \in QueryPts : CheckInlandCall(q[1], q[2])
    \/ CheckInlandIter
    \/ CheckInlandReturn

SpecInland == InitInland /\ [][NextInland]_vars

-----------------------------------------------------------------------------
(* The data file: lines of whitespace-separated tokens *)

\* A token that float() parses, with the value it parses to.
Num(v) == [num |-> TRUE, val |-> v, chars |-> <<>>]

\* A token that float() rejects, as its characters.
Str(c) == [num |-> FALSE, val |-> 0, chars |-> c]

\* 'Y' in parts[0]
ContainsY(chars) == \E i \in 1..Len(chars) : chars[i] = "Y"

HeaderLine ==
    << Str(<<"T">>), Str(<<"I">>), Str(<<"O">>), Str(<<"x">>), Str(<<"y">>),
       Str(<<"M">>), Str(<<"D">>) >>

\* The first seven tokens of a data line.
Catalog(type, id, p, mag, depth) ==
    << Str(type), Str(<<id>>), Str(<<"t">>), Num(p[1]), Num(p[2]), Num(mag), Num(depth) >>

\* Tokens 8 to 12 of a data line.
Alert(p, mag, depth, time) ==
    << Num(p[1]), Num(p[2]), Num(mag), Num(depth), Num(time) >>

\* Detected, inland: catalog (121.0, 23.0) M5.5 10 km, alert (121.1, 23.05)
\* M5.3 12 km after 8.0 s
LineY1 == Catalog(<<"E", "Y">>, "a", Pt(0, 0), 55, 100) \o Alert(Pt(20, 10), 53, 120, 80)
\* Detected, offshore, with a 13th token
LineY2 == Catalog(<<"E", "Y">>, "b", Pt(40, 0), 62, 300) \o Alert(Pt(41, 1), 66, 350, 152)
                \o << Num(140) >>
\* Detected type, catalog tokens only
LineY7 == Catalog(<<"E", "Y">>, "c", Pt(0, 1), 50, 80)
LineN == Catalog(<<"E", "N">>, "d", Pt(1, 0), 45, 100)
LineL == Catalog(<<"E", "L">>, "e", Pt(40, 1), 65, 500)
\* second character N, a Y elsewhere, twelve tokens
LineYN == Catalog(<<"Y", "N">>, "f", Pt(0, 0), 52, 90) \o Alert(Pt(1, 1), 50, 100, 120)
\* a catalog magnitude that is no number
LineBadCatalog ==
    << Str(<<"E", "N">>), Str(<<"g">>), Str(<<"t">>), Num(24200), Num(4600),
       Str(<<"?">>), Num(100) >>
\* a processing time that is no number, on a Detected line of twelve tokens
LineBadAlert ==
    Catalog(<<"E", "Y">>, "h", Pt(0, 0), 58, 150)
        \o << Num(24201), Num(4601), Num(57), Num(140), Str(<<"?">>) >>
LineShort == << Str(<<"E", "N">>), Str(<<"i">>), Str(<<"t">>) >>
LineBlank == << >>

DataLines == { LineY1, LineY2, LineY7, LineN, LineL, LineYN,
               LineBadCatalog, LineBadAlert, LineShort, LineBlank }

\* The files: nothing at all, or a first line and up to MaxLines more.
Files ==
    { << >> } \cup
    { <<first>> \o rest : first \in {HeaderLine, LineY1},
                          rest \in SeqsUpTo(DataLines, MaxLines) }

\* The boundary file of the pipeline: missing, or a square around (121.0, 23.0).
SquareRing == << Pt(-4, -4), Pt(4, -4), Pt(4, 4), Pt(-4, 4) >>

Boundaries == { << >>, SquareRing }

-----------------------------------------------------------------------------
(* load_data *)

BaseColumns ==
    { "Type", "ID", "Origin_Time", "Cat_Lon", "Cat_Lat", "Cat_Mag", "Cat_Depth",
      "EEW_Lon", "EEW_Lat", "EEW_Mag", "EEW_Depth", "Processing_Time" }


\* An off-by-one token count: the alert is read from 13 tokens on.
HasAlertTokens13(parts) == ContainsY(parts[1].chars) /\ Len(parts) >= 13

HasAlertTokens(parts) == ContainsY(parts[1].chars) /\ Len(parts) >= 12

\* float() raises ValueError on one of the tokens the line's row reads
RaisesValueError(parts) ==
    \/ \E k \in 4..7 : ~parts[k].num
    \/ HasAlertTokens(parts) /\ \E k \in 8..12 : ~parts[k].num

\* if line.strip() and len(parts) >= 7
MakesRow(parts) == Len(parts) >= 7

\* A row that takes the alert columns whatever the line's type.
RowOfAnyType(parts) ==
    LET alert == Len(parts) >= 12 /\ \A k \in 8..12 : parts[k].num
    IN  [ Type |-> parts[1].chars, ID |-> parts[2].chars, Origin_Time |-> parts[3].chars,
          Cat_Lon |-> parts[4].val, Cat_Lat |-> parts[5].val,
          Cat_Mag |-> parts[6].val, Cat_Depth |-> parts[7].val,
          EEW_Lon |-> IF alert THEN parts[8].val ELSE NaN,
          EEW_Lat |-> IF alert THEN parts[9].val ELSE NaN,
          EEW_Mag |-> IF alert THEN parts[10].val ELSE NaN,
          EEW_Depth |-> IF alert THEN parts[11].val ELSE NaN,
          Processing_Time |-> IF alert THEN parts[12].val ELSE NaN,
          Is_Inland |-> check_inland(parts[4].val, parts[5].val) ]

\* The row of one line; Is_Inland is check_inland(Cat_Lon, Cat_Lat), "None"
\* standing for the column that is not added without boundary points.
RowOf(parts) ==
    LET alert == HasAlertTokens(parts)
    IN  [ Type |-> parts[1].chars, ID |-> parts[2].chars, Origin_Time |-> parts[3].chars,
          Cat_Lon |-> parts[4].val, Cat_Lat |-> parts[5].val,
          Cat_Mag |-> parts[6].val, Cat_Depth |-> parts[7].val,
          EEW_Lon |-> IF alert THEN parts[8].val ELSE NaN,
          EEW_Lat |-> IF alert THEN parts[9].val ELSE NaN,
          EEW_Mag |-> IF alert THEN parts[10].val ELSE NaN,
          EEW_Depth |-> IF alert THEN parts[11].val ELSE NaN,
          Processing_Time |-> IF alert THEN parts[12].val ELSE NaN,
          Is_Inland |-> check_inland(parts[4].val, parts[5].val) ]

\* for line in lines[1:], from line k on (lines[1:] starts at the second line)
RECURSIVE RowsFrom(_, _)
RowsFrom(lines, k) ==
    IF k > Len(lines) THEN << >>
    ELSE IF MakesRow(lines[k]) THEN <<RowOf(lines[k])>> \o RowsFrom(lines, k + 1)
    ELSE RowsFrom(lines, k + 1)

\* The loop reaches a line whose parsing raises.
LoadRaises(lines) ==
    \E k \in 2..Len(lines) : MakesRow(lines[k]) /\ RaisesValueError(lines[k])

\* pd.DataFrame(data): a frame built from no rows has no columns
FrameOf(rows) ==
    [ isNone |-> FALSE,
      columns |-> IF Len(rows) = 0 THEN {} ELSE BaseColumns,
      rows |-> rows ]

\* The analyzer's attributes, and the exception of the call in progress.
Self == [df |-> df, df_analyzed |-> df_analyzed, results |-> results, err |-> "none"]

\* load_data.  `lib` chooses what pandas does when the Is_Inland column is
\* assigned from apply() over a frame without rows: raise (TRUE) or add an
\* empty column (FALSE).
load_data(an, lib) ==
    IF LoadRaises(file_lines) THEN [an EXCEPT !.err = "ValueError"]
    ELSE LET loaded(frame) ==
                 IF Len(boundary_lons) = 0 THEN [an EXCEPT !.df = frame]
                 ELSE IF Len(frame.rows) > 0
                      THEN [an EXCEPT !.df = [frame EXCEPT !.columns = @ \cup {"Is_Inland"}]]
                 ELSE IF lib THEN [an EXCEPT !.df = frame, !.err = "ValueError"]
                 ELSE [an EXCEPT !.df = [frame EXCEPT !.columns = {"Is_Inland"}]]
         IN  With(FrameOf(RowsFrom(file_lines, 2)), loaded)

-----------------------------------------------------------------------------
(* calculate_errors *)

ErrorColumns == { "Epicenter_Error_km", "Magnitude_Error", "Depth_Error_km" }



\* Errors with 0 where the alert is missing (fillna(0)).
ErrorsOfZeroFilled(r) ==
    [ Epicenter_Error_km |->
          IF ~IsNaN(r.EEW_Lat)
          THEN calculate_distance(r.Cat_Lat, r.Cat_Lon, r.EEW_Lat, r.EEW_Lon)
          ELSE 0,
      Magnitude_Error |-> IF IsNaN(r.EEW_Mag) THEN 0 ELSE Abs(r.Cat_Mag - r.EEW_Mag),
      Depth_Error_km |-> IF IsNaN(r.EEW_Depth) THEN 0 ELSE Abs(r.Cat_Depth - r.EEW_Depth) ]

\* Errors without abs(): signed differences.
ErrorsOfSigned(r) ==
    [ Epicenter_Error_km |->
          IF ~IsNaN(r.EEW_Lat)
          THEN calculate_distance(r.Cat_Lat, r.Cat_Lon, r.EEW_Lat, r.EEW_Lon)
          ELSE NaN,
      Magnitude_Error |-> IF IsNaN(r.EEW_Mag) THEN NaN ELSE r.Cat_Mag - r.EEW_Mag,
      Depth_Error_km |-> IF IsNaN(r.EEW_Depth) THEN NaN ELSE r.Cat_Depth - r.EEW_Depth ]

\* The three error columns of one detected row.
ErrorsOf(r) ==
    [ Epicenter_Error_km |->
          IF ~IsNaN(r.EEW_Lat)
          THEN calculate_distance(r.Cat_Lat, r.Cat_Lon, r.EEW_Lat, r.EEW_Lon)
          ELSE NaN,
      Magnitude_Error |-> AbsDiff(r.Cat_Mag, r.EEW_Mag),
      Depth_Error_km |-> AbsDiff(r.Cat_Depth, r.EEW_Depth) ]

\* self.df['Type'].str.contains('Y', na=False)
IsDetectedRow(r) == ContainsY(r.Type)

\* eew_detected with its three new columns
AnalyzedRows(rows) ==
    LET detected == SelectSeq(rows, IsDetectedRow)
    IN  [k \in 1..Len(detected) |-> detected[k] @@ ErrorsOf(detected[k])]

\* if self.df is None: self.load_data()
EnsureLoaded(an, lib) == IF an.df.isNone THEN load_data(an, lib) ELSE an


\* calculate_errors writing the three columns into self.df as well.
CalculateErrorsInPlace(a1) ==
    IF a1.err # "none" THEN a1
    ELSE IF "Type" \notin a1.df.columns THEN [a1 EXCEPT !.err = "KeyError"]
    ELSE [a1 EXCEPT !.df = [a1.df EXCEPT !.columns = @ \cup ErrorColumns],
                    !.df_analyzed =
                        [ isNone |-> FALSE,
                          columns |-> a1.df.columns \cup ErrorColumns,
                          rows |-> AnalyzedRows(a1.df.rows) ]]

\* calculate_errors once self.df is there; an exception of load_data goes
\* on to the caller.
CalculateErrorsLoaded(a1) ==
    IF a1.err # "none" THEN a1
    ELSE IF "Type" \notin a1.df.columns THEN [a1 EXCEPT !.err = "KeyError"]
    ELSE [a1 EXCEPT !.df_analyzed =
             [ isNone |-> FALSE,
               columns |-> a1.df.columns \cup ErrorColumns,
               rows |-> AnalyzedRows(a1.df.rows) ]]

calculate_errors(an, lib) == With(EnsureLoaded(an, lib), CalculateErrorsLoaded)

-----------------------------------------------------------------------------
(* Reductions of a column *)

\* A float quotient n / d, kept exact; d = 0 stands for nan.
Frac(n, d) == <<n, d>>
NaNFrac == <<0, 0>>
FracIsNaN(p) == p[2] = 0
\* Equal as numbers (two nan compare as the same report).
FracEq(p, q) ==
    IF FracIsNaN(p) \/ FracIsNaN(q) THEN FracIsNaN(p) /\ FracIsNaN(q)
    ELSE p[1] * q[2] = q[1] * p[2]
\* p <= q for fractions with positive denominators
FracLeq(p, q) == p[1] * q[2] <= q[1] * p[2]

RECURSIVE SumSeq(_)
SumSeq(xs) == IF Len(xs) = 0 THEN 0 ELSE xs[1] + SumSeq(Tail(xs))

Squares(xs) == [k \in 1..Len(xs) |-> xs[k] * xs[k]]

\* The values of a column that are not nan (pandas reductions skip nan).
Defined(rows, col) ==
    LET notNaN(r) == ~IsNaN(r[col])
        kept == SelectSeq(rows, notNaN)
    IN  [k \in 1..Len(kept) |-> kept[k][col]]

\* Series.mean()
Mean(xs) == IF Len(xs) = 0 THEN NaNFrac ELSE Frac(SumSeq(xs), Len(xs))

\* numpy.std: the square of the population standard deviation (divide by N)
PopulationVariance(xs) ==
    LET n == Len(xs)
    IN  IF n = 0 THEN NaNFrac
        ELSE Frac(n * SumSeq(Squares(xs)) - SumSeq(xs) * SumSeq(xs), n * n)

\* Series.std(): pandas divides by N - 1 (ddof = 1) and gives nan for fewer
\* than two values.  The standard deviation is kept as its square.
Std(xs) ==
    LET n == Len(xs)
    IN  IF n < 2 THEN NaNFrac
        ELSE Frac(n * SumSeq(Squares(xs)) - SumSeq(xs) * SumSeq(xs), n * (n - 1))

\* np.sqrt(np.mean(x**2)), kept as its square
Rms(xs) == Mean(Squares(xs))

\* The k-th smallest of xs
Kth(xs, k) ==
    CHOOSE v \in { xs[j] : j \in 1..Len(xs) } :
        /\ Cardinality({ j \in 1..Len(xs) : xs[j] < v }) < k
        /\ Cardinality({ j \in 1..Len(xs) : xs[j] <= v }) >= k

\* Series.median()
Median(xs) ==
    LET n == Len(xs)
    IN  IF n = 0 THEN NaNFrac
        ELSE IF n % 2 = 1 THEN Frac(2 * Kth(xs, (n + 1) \div 2), 2)
        ELSE Frac(Kth(xs, n \div 2) + Kth(xs, n \div 2 + 1), 2)

\* Series.max(), Series.min()
Max(xs) == IF Len(xs) = 0 THEN NaN
           ELSE CHOOSE v \in { xs[j] : j \in 1..Len(xs) } : \A j \in 1..Len(xs) : xs[j] <= v
Min(xs) == IF Len(xs) = 0 THEN NaN
           ELSE CHOOSE v \in { xs[j] : j \in 1..Len(xs) } : \A j \in 1..Len(xs) : xs[j] >= v

-----------------------------------------------------------------------------
(* get_statistics *)

\* self.df_analyzed.dropna(subset=['Epicenter_Error_km'])
DropNaEpicenter(rows) ==
    LET hasError(r) == ~IsNaN(r.Epicenter_Error_km)
    IN  SelectSeq(rows, hasError)

InlandRows(rows) == LET t(r) == r.Is_Inland = "True" IN SelectSeq(rows, t)
OffshoreRows(rows) == LET t(r) == r.Is_Inland = "False" IN SelectSeq(rows, t)


\* The inland/offshore part entered for every summary, classified or not.
HasInlandSplitAlways(analyzed, d) == TRUE

\* 'Is_Inland' in df.columns and df['Is_Inland'].notna().any()
HasInlandSplit(analyzed, d) ==
    /\ "Is_Inland" \in analyzed.columns
    /\ \E k \in 1..Len(d) : d[k].Is_Inland # "None"

BaseKeys ==
    { "total_earthquakes", "eew_detected", "missed_events", "detection_rate",
      "epicenter_error_mean_km", "epicenter_error_std_km", "epicenter_error_median_km",
      "epicenter_error_max_km", "epicenter_error_min_km",
      "magnitude_error_mean", "magnitude_error_std", "magnitude_error_rms",
      "depth_error_mean_km", "depth_error_std_km",
      "processing_time_mean_s", "processing_time_std_s", "processing_time_median_s",
      "processing_time_max_s", "processing_time_min_s" }

InlandKeys ==
    { "inland_epicenter_error_mean_km", "inland_epicenter_error_std_km",
      "inland_magnitude_error_rms", "inland_processing_time_mean_s",
      "inland_processing_time_std_s" }

OffshoreKeys ==
    { "offshore_epicenter_error_mean_km", "offshore_epicenter_error_std_km",
      "offshore_magnitude_error_rms", "offshore_processing_time_mean_s",
      "offshore_processing_time_std_s" }

\* The statistics of one subset (inland or offshore); nan where the subset
\* is empty and the keys are not entered.
SubsetStats(rows) ==
    [ epicenter_error_mean_km |-> Mean(Defined(rows, "Epicenter_Error_km")),
      epicenter_error_std_km |-> Std(Defined(rows, "Epicenter_Error_km")),
      magnitude_error_rms |-> Rms(Defined(rows, "Magnitude_Error")),
      processing_time_mean_s |-> Mean(Defined(rows, "Processing_Time")),
      processing_time_std_s |-> Std(Defined(rows, "Processing_Time")) ]

\* The stats dict: `keys` are the keys present, the other fields their values.
StatsOver(all, analyzed, d, inl, off) ==
    LET split == HasInlandSplit(analyzed, d)
    IN  [ isSet |-> TRUE,
          keys |-> BaseKeys
                     \cup (IF split THEN {"inland_count", "offshore_count"} ELSE {})
                     \cup (IF Len(inl) > 0 THEN InlandKeys ELSE {})
                     \cup (IF Len(off) > 0 THEN OffshoreKeys ELSE {}),
          total_earthquakes |-> Len(all.rows),
          eew_detected |-> Len(d),
          missed_events |-> Len(all.rows) - Len(d),
          detection_rate |-> Frac(Len(d) * 100, Len(all.rows)),
          epicenter_error_mean_km |-> Mean(Defined(d, "Epicenter_Error_km")),
          epicenter_error_std_km |-> Std(Defined(d, "Epicenter_Error_km")),
          epicenter_error_median_km |-> Median(Defined(d, "Epicenter_Error_km")),
          epicenter_error_max_km |-> Max(Defined(d, "Epicenter_Error_km")),
          epicenter_error_min_km |-> Min(Defined(d, "Epicenter_Error_km")),
          magnitude_error_mean |-> Mean(Defined(d, "Magnitude_Error")),
          magnitude_error_std |-> Std(Defined(d, "Magnitude_Error")),
          magnitude_error_rms |-> Rms(Defined(d, "Magnitude_Error")),
          depth_error_mean_km |-> Mean(Defined(d, "Depth_Error_km")),
          depth_error_std_km |-> Std(Defined(d, "Depth_Error_km")),
          processing_time_mean_s |-> Mean(Defined(d, "Processing_Time")),
          processing_time_std_s |-> Std(Defined(d, "Processing_Time")),
          processing_time_median_s |-> Median(Defined(d, "Processing_Time")),
          processing_time_max_s |-> Max(Defined(d, "Processing_Time")),
          processing_time_min_s |-> Min(Defined(d, "Processing_Time")),
          inland_count |-> Len(inl),
          offshore_count |-> Len(off),
          inland |-> SubsetStats(inl),
          offshore |-> SubsetStats(off) ]

\* df is df_analyzed without the rows that have no epicenter error;
\* df_inland and df_offshore are taken when the Is_Inland column has a value.
StatsOf(all, analyzed) ==
    LET split(d) == HasInlandSplit(analyzed, d)
        stats(d) == StatsOver(all, analyzed, d,
                              IF split(d) THEN InlandRows(d) ELSE << >>,
                              IF split(d) THEN OffshoreRows(d) ELSE << >>)
    IN  With(DropNaEpicenter(analyzed.rows), stats)

\* if not hasattr(self, 'df_analyzed'): self.calculate_errors()
EnsureAnalyzed(an, lib) ==
    IF an.df_analyzed.isNone THEN calculate_errors(an, lib) ELSE an

\* get_statistics once self.df_analyzed is there: len(df) / len(self.df)
\* raises for a frame without rows, before self.results is assigned.
GetStatisticsAnalyzed(a1) ==
    IF a1.err # "none" THEN a1
    ELSE IF Len(a1.df.rows) = 0 THEN [a1 EXCEPT !.err = "ZeroDivisionError"]
    ELSE [a1 EXCEPT !.results = StatsOf(a1.df, a1.df_analyzed)]

get_statistics(an, lib) == With(EnsureAnalyzed(an, lib), GetStatisticsAnalyzed)

-----------------------------------------------------------------------------
(* filter_by_magnitude, filter_by_depth, and the callers' analyzer.df = ... *)

RowsWhere(frame, Keep(_)) == [frame EXCEPT !.rows = SelectSeq(frame.rows, Keep)]

\* analyzer.df = analyzer.filter_by_magnitude(min_mag, max_mag)
set_df_by_magnitude(an, lib, min_mag, max_mag) ==
    LET keep(r) == r.Cat_Mag >= min_mag /\ r.Cat_Mag <= max_mag
        filtered(a1) ==
            IF a1.err # "none" THEN a1
            ELSE IF "Cat_Mag" \notin a1.df.columns THEN [a1 EXCEPT !.err = "KeyError"]
            ELSE [a1 EXCEPT !.df = RowsWhere(a1.df, keep)]
    IN  With(EnsureLoaded(an, lib), filtered)

\* analyzer.df = analyzer.filter_by_depth(max_depth)
set_df_by_depth(an, lib, max_depth) ==
    LET keep(r) == r.Cat_Depth <= max_depth
        filtered(a1) ==
            IF a1.err # "none" THEN a1
            ELSE IF "Cat_Depth" \notin a1.df.columns THEN [a1 EXCEPT !.err = "KeyError"]
            ELSE [a1 EXCEPT !.df = RowsWhere(a1.df, keep)]
    IN  With(EnsureLoaded(an, lib), filtered)

-----------------------------------------------------------------------------
(* The analyzer's methods as steps of a script that holds one analyzer *)

\* A boundary list whose first point is taken out by the method that reads it.
BoundaryConsumed(points) == IF Len(points) = 0 THEN points ELSE Tail(points)

\* A boundary list after a method: the methods only index the lists
\* (self.boundary_lons[i], len(self.boundary_lons)) and assign none.
BoundaryRead(points) == points

\* The attributes after a call, and the exception it raised.
Becomes(an) ==
    /\ df' = an.df
    /\ df_analyzed' = an.df_analyzed
    /\ results' = an.results
    /\ err' = an.err
    /\ boundary_lons' = BoundaryRead(boundary_lons)
    /\ boundary_lats' = BoundaryRead(boundary_lats)

\* The parameters the callers pass: magnitudes from 5.0, depths to 40.0 km.
MagnitudeRanges == { <<50, 100>> }
DepthLimits == { 200, 400 }

LoadData ==
    /\ \E lib \in BOOLEAN, an \in {Self} : \E after \in {load_data(an, lib)} : Becomes(after)
    /\ UNCHANGED <<file_lines, civars, servervars, distancevars, legacyvars, floatvars, plotvars>>

CalculateErrors ==
    /\ \E lib \in BOOLEAN, an \in {Self} : \E after \in {calculate_errors(an, lib)} : Becomes(after)
    /\ UNCHANGED <<file_lines, civars, servervars, distancevars, legacyvars, floatvars, plotvars>>

GetStatistics ==
    /\ \E lib \in BOOLEAN, an \in {Self} : \E after \in {get_statistics(an, lib)} : Becomes(after)
    /\ UNCHANGED <<file_lines, civars, servervars, distancevars, legacyvars, floatvars, plotvars>>

SetDfByMagnitude ==
    /\ \E lib \in BOOLEAN, m \in MagnitudeRanges, an \in {Self} :
       \E after \in {set_df_by_magnitude(an, lib, m[1], m[2])} : Becomes(after)
    /\ UNCHANGED <<file_lines, civars, servervars, distancevars, legacyvars, floatvars, plotvars>>

SetDfByDepth ==
    /\ \E lib \in BOOLEAN, d \in DepthLimits, an \in {Self} :
       \E after \in {set_df_by_depth(an, lib, d)} : Becomes(after)
    /\ UNCHANGED <<file_lines, civars, servervars, distancevars, legacyvars, floatvars, plotvars>>

\* A constructed analyzer: the boundary file read, nothing loaded.
Init ==
    /\ \E pts \in Boundaries :
          boundary_lons = Lons(pts) /\ boundary_lats = Lats(pts)
    /\ file_lines \in Files
    /\ df = NoneDF /\ df_analyzed = NoneDF /\ results = NoResults /\ err = "none"
    /\ CheckInlandIdle
    /\ ServerIdle
    /\ DistanceIdle
    /\ LegacyIdle
    /\ FloatIdle
    /\ PlotIdle

Next ==
    \/ LoadData
    \/ CalculateErrors
    \/ GetStatistics
    \/ SetDfByMagnitude
    \/ SetDfByDepth

Spec == Init /\ [][Next]_vars

-----------------------------------------------------------------------------
(* The MCP server: one data file, its analyzer kept in _analyzer_cache *)

\* EEWSAnalyzer(data_file), just constructed
FreshAnalyzer ==
    [df |-> NoneDF, df_analyzed |-> NoneDF, results |-> NoResults, err |-> "none"]

\* get_analyzer: the cached analyzer, or a new one after load_data and
\* calculate_errors (an exception in these leaves the cache as it was).
get_analyzer(lib) ==
    IF cache THEN Self
    ELSE calculate_errors(FreshAnalyzer, lib)

\* The arguments of analyze_eews_data that matter: which filter keys are
\* present, and their values.
ToolArguments ==
    { [keys |-> k, min_magnitude |-> 50, max_magnitude |-> 100, max_depth |-> 400] :
        k \in { {}, {"min_magnitude"}, {"max_depth"}, {"min_magnitude", "max_depth"} } }

StatisticsTools ==
    { "get_detection_statistics", "get_epicenter_error_statistics",
      "get_magnitude_error_statistics", "get_processing_time_statistics" }

\* arguments.get("min_magnitude", 0.0), arguments.get("max_magnitude", 10.0)
MinMagnitudeOf(arguments) ==
    IF "min_magnitude" \in arguments.keys THEN arguments.min_magnitude ELSE 0
MaxMagnitudeOf(arguments) ==
    IF "max_magnitude" \in arguments.keys THEN arguments.max_magnitude ELSE 100

\* The magnitude branch of analyze_eews_data
ApplyMagnitude(an, lib, arguments) ==
    IF an.err = "none" /\ arguments.keys \cap {"min_magnitude", "max_magnitude"} # {}
    THEN LET recalculated(f) == IF f.err # "none" THEN f ELSE calculate_errors(f, lib)
         IN  With(set_df_by_magnitude(an, lib, MinMagnitudeOf(arguments),
                                      MaxMagnitudeOf(arguments)), recalculated)
    ELSE an

\* The depth branch of analyze_eews_data
ApplyDepth(an, lib, arguments) ==
    IF an.err = "none" /\ "max_depth" \in arguments.keys
    THEN LET recalculated(f) == IF f.err # "none" THEN f ELSE calculate_errors(f, lib)
         IN  With(set_df_by_depth(an, lib, arguments.max_depth), recalculated)
    ELSE an

\* What call_tool answers: the statistics, or "Error: ..." for a caught exception.
ResponseOf(tool, an) ==
    [ tool |-> tool, error |-> an.err,
      stats |-> IF an.err = "none" THEN an.results ELSE NoResults ]

\* The analyzer the tool worked on stays in the cache, with what the tool
\* did to it; an analyzer whose construction failed is dropped.
ToolEnds(tool, got, an) ==
    /\ response' = ResponseOf(tool, an)
    /\ err' = "none"
    /\ IF got.err # "none"
       THEN UNCHANGED <<cache, df, df_analyzed, results>>
       ELSE /\ cache' = TRUE
            /\ df' = an.df
            /\ df_analyzed' = an.df_analyzed
            /\ results' = an.results

ToolAnalyzeEewsData ==
    /\ \E lib \in BOOLEAN, arguments \in ToolArguments :
       \E got \in {get_analyzer(lib)} :
       \E a1 \in {ApplyMagnitude(got, lib, arguments)} :
       \E a2 \in {ApplyDepth(a1, lib, arguments)} :
       \E a3 \in {IF a2.err = "none" THEN get_statistics(a2, lib) ELSE a2} :
          ToolEnds("analyze_eews_data", got, a3)
    /\ UNCHANGED <<file_lines, boundaryvars, civars, distancevars, legacyvars, floatvars, plotvars>>

ToolGetStatistics ==
    /\ \E lib \in BOOLEAN, tool \in StatisticsTools :
       \E got \in {get_analyzer(lib)} :
       \E a1 \in {IF got.err = "none" THEN get_statistics(got, lib) ELSE got} :
          ToolEnds(tool, got, a1)
    /\ UNCHANGED <<file_lines, boundaryvars, civars, distancevars, legacyvars, floatvars, plotvars>>

NextServer ==
    \/ ToolAnalyzeEewsData
    \/ ToolGetStatistics

SpecServer == Init /\ [][NextServer]_vars

-----------------------------------------------------------------------------
(* Plane geometry of the boundary polyline, for the classifier's properties *)

BoundaryPoints == [i \in 1..Len(boundary_lons) |-> <<boundary_lons[i], boundary_lats[i]>>]

\* The vertices of the polygon the boundary draws: a repeated closing point
\* is dropped.
RingVertices(pts) ==
    IF Len(pts) >= 4 /\ pts[1] = pts[Len(pts)] THEN SubSeq(pts, 1, Len(pts) - 1)
    ELSE pts

Cross(o, a, b) == (a[1] - o[1]) * (b[2] - o[2]) - (a[2] - o[2]) * (b[1] - o[1])

Between(x, u, v) == (u <= x /\ x <= v) \/ (v <= x /\ x <= u)

OnSegment(p, a, b) ==
    Cross(a, b, p) = 0 /\ Between(p[1], a[1], b[1]) /\ Between(p[2], a[2], b[2])

Sign(x) == IF x > 0 THEN 1 ELSE IF x < 0 THEN -1 ELSE 0

SegmentsMeet(a, b, c, d) ==
    \/ /\ Sign(Cross(c, d, a)) * Sign(Cross(c, d, b)) < 0
       /\ Sign(Cross(a, b, c)) * Sign(Cross(a, b, d)) < 0
    \/ OnSegment(a, c, d) \/ OnSegment(b, c, d)
    \/ OnSegment(c, a, b) \/ OnSegment(d, a, b)

NextVertex(v, i) == v[(i % Len(v)) + 1]

\* A simple polygon: at least three distinct vertices, edges meeting only at
\* shared end points.
IsClosedRing(pts) ==
    LET v == RingVertices(pts)
        n == Len(v)
    IN  /\ n >= 3
        /\ \A i, j \in 1..n : i # j => v[i] # v[j]
        /\ \A i \in 1..n :
              ~OnSegment(NextVertex(v, i + 1), v[i], NextVertex(v, i))
        /\ \A i \in 1..n :
              ~OnSegment(v[i], NextVertex(v, i), NextVertex(v, i + 1))
        /\ \A i, j \in 1..n :
              (i < j /\ j # i + 1 /\ ~(i = 1 /\ j = n))
                 => ~SegmentsMeet(v[i], NextVertex(v, i), v[j], NextVertex(v, j))

\* The edge from a to b crosses the ray going east from p.
CrossesRay(p, a, b) ==
    /\ (a[2] > p[2]) # (b[2] > p[2])
    /\ LET t == (b[1] - a[1]) * (p[2] - a[2]) - (p[1] - a[1]) * (b[2] - a[2])
       IN  IF b[2] > a[2] THEN t > 0 ELSE t < 0

StrictlyInside(p, pts) ==
    LET v == RingVertices(pts)
        n == Len(v)
    IN  /\ \A i \in 1..n : ~OnSegment(p, v[i], NextVertex(v, i))
        /\ Cardinality({ i \in 1..n : CrossesRay(p, v[i], NextVertex(v, i)) }) % 2 = 1

\* Some boundary point lies strictly in each of the four quadrants around p.
QuadrantsCovered(p, pts) ==
    /\ \E i \in 1..Len(pts) : pts[i][1] > p[1] /\ pts[i][2] > p[2]
    /\ \E i \in 1..Len(pts) : pts[i][1] < p[1] /\ pts[i][2] < p[2]
    /\ \E i \in 1..Len(pts) : pts[i][1] > p[1] /\ pts[i][2] < p[2]
    /\ \E i \in 1..Len(pts) : pts[i][1] < p[1] /\ pts[i][2] > p[2]

\* Some boundary point lies less than 1.0 km from p.
NearBoundary(p, pts) ==
    \E i \in 1..Len(pts) :
        calculate_distance(p[2], p[1], pts[i][2], pts[i][1]) < near_coast_line_dis

CiPoint == <<ci_lon, ci_lat>>

CiInsideRing ==
    /\ ci_pc = "done"
    /\ IsClosedRing(BoundaryPoints)
    /\ StrictlyInside(CiPoint, BoundaryPoints)

\* s with the elements at i and j exchanged
Swap(s, i, j) ==
    [k \in 1..Len(s) |-> IF k = i THEN s[j] ELSE IF k = j THEN s[i] ELSE s[k]]

-----------------------------------------------------------------------------
(* Properties of check_inland *)

\* C1 as stated: for a boundary forming a closed ring and a point strictly
\* inside it, check_inland returns true.
C1_InsideRingIsInland == CiInsideRing => ci_ret = "True"

\* C1 amended: for a boundary forming a closed ring and a point strictly
\* inside it, check_inland returns true when the ring has a point strictly in
\* each of the four quadrants around the point or a point less than 1.0 km
\* from it.
C1_InsideSurroundedIsInland ==
    (CiInsideRing /\ (QuadrantsCovered(CiPoint, BoundaryPoints)
                        \/ NearBoundary(CiPoint, BoundaryPoints)))
       => ci_ret = "True"

\* A point strictly inside a ring, far from every ring point, that the four
\* quadrants classify as inland.
C1_Witness ==
    /\ CiInsideRing
    /\ QuadrantsCovered(CiPoint, BoundaryPoints)
    /\ ~NearBoundary(CiPoint, BoundaryPoints)
    /\ ci_ret = "True"

\* C2: for a fixed point, check_inland returns the same classification for
\* every order of the same boundary points.  Every boundary sequence is an
\* initial state, and exchanges of two neighbouring points generate every
\* permutation, so the property is stated for each such exchange.
C2_OrderIndependent ==
    ci_pc = "done" =>
        \A i \in 1..(Len(boundary_lons) - 1) :
            CheckInlandOn(Swap(boundary_lons, i, i + 1), Swap(boundary_lats, i, i + 1),
                          ci_lon, ci_lat) = ci_ret

\* A call that left the loop early on a boundary whose points differ, so
\* that another order examines other points.
C2_Witness ==
    /\ ci_pc = "done"
    /\ ci_ret = "True"
    /\ Len(ci_visited) < Len(boundary_lons)
    /\ \E i, j \in 1..Len(boundary_lons) : BoundaryPoints[i] # BoundaryPoints[j]

-----------------------------------------------------------------------------
(* Properties of the pipeline: load_data, calculate_errors, get_statistics *)

\* The type code of a record: the second character of its first token.
TypeCode(r) == IF Len(r.Type) >= 2 THEN r.Type[2] ELSE ""

\* The line a row was read from (each line of DataLines has its own ID).
LineOf(r) == CHOOSE l \in DataLines : MakesRow(l) /\ l[2].chars = r.ID

\* The rows of the lines that parse, the others skipped.
RECURSIVE WellFormedRowsFrom(_, _)
WellFormedRowsFrom(lines, k) ==
    IF k > Len(lines) THEN << >>
    ELSE IF MakesRow(lines[k]) /\ ~RaisesValueError(lines[k])
         THEN <<RowOf(lines[k])>> \o WellFormedRowsFrom(lines, k + 1)
    ELSE WellFormedRowsFrom(lines, k + 1)

\* C3: a line with at least 7 tokens and a token that is no number in a
\* required position is skipped by load_data, which still returns the records
\* of every other line; the run is not aborted.
C3_MalformedLineSkipped ==
    [][ (LoadData /\ LoadRaises(file_lines))
           => (err' = "none" /\ ~df'.isNone
               /\ df'.rows = WellFormedRowsFrom(file_lines, 2)) ]_vars

\* The record set the next call works on is empty (and its loading does not
\* fail on a malformed line).
EmptyRecordSet ==
    IF df.isNone THEN ~LoadRaises(file_lines) /\ Len(RowsFrom(file_lines, 2)) = 0
    ELSE Len(df.rows) = 0

\* C4: with an empty record set, get_statistics (after load_data and
\* calculate_errors) raises no error and reports the detection rate as a
\* defined "no data" value.
C4_EmptyIsNoData ==
    [][ (GetStatistics /\ EmptyRecordSet)
           => (err' = "none" /\ results'.isSet /\ FracIsNaN(results'.detection_rate)) ]_vars

\* C5 as stated: every record of Detected type in the output of
\* calculate_errors has a defined epicenter error and magnitude error.
C5_DetectedHaveErrors ==
    ~df_analyzed.isNone =>
        \A k \in 1..Len(df_analyzed.rows) :
            LET r == df_analyzed.rows[k]
            IN  TypeCode(r) = "Y"
                   => ~IsNaN(r.Epicenter_Error_km) /\ ~IsNaN(r.Magnitude_Error)

\* C5 amended: a record of Detected type in the output of calculate_errors
\* has a defined epicenter error and magnitude error when its line has at
\* least 12 tokens; from a line with fewer tokens both are the missing value.
C5_DetectedWithAlertHaveErrors ==
    ~df_analyzed.isNone =>
        \A k \in 1..Len(df_analyzed.rows) :
            LET r == df_analyzed.rows[k]
            IN  TypeCode(r) = "Y"
                   => IF Len(LineOf(r)) >= 12
                      THEN ~IsNaN(r.Epicenter_Error_km) /\ ~IsNaN(r.Magnitude_Error)
                      ELSE IsNaN(r.Epicenter_Error_km) /\ IsNaN(r.Magnitude_Error)

\* calculate_errors has put out a Detected record of 12 tokens and one of 7.
C5_Witness ==
    /\ ~df_analyzed.isNone
    /\ \E k \in 1..Len(df_analyzed.rows) :
          LET r == df_analyzed.rows[k]
          IN  TypeCode(r) = "Y" /\ Len(LineOf(r)) >= 12 /\ r.Epicenter_Error_km > 0
    /\ \E k \in 1..Len(df_analyzed.rows) :
          LET r == df_analyzed.rows[k]
          IN  TypeCode(r) = "Y" /\ Len(LineOf(r)) < 12

DetectedCount(rows) ==
    Cardinality({ k \in 1..Len(rows) : TypeCode(rows[k]) = "Y" })

\* C6: the detection_rate get_statistics returns is the number of records of
\* Detected type divided by the number of all records, times 100.
C6_DetectionRate ==
    [][ (GetStatistics /\ err' = "none")
           => FracEq(results'.detection_rate,
                     Frac(DetectedCount(df'.rows) * 100, Len(df'.rows))) ]_vars

\* The subset of df_analyzed a statistic is taken over.
StatRows(which) ==
    LET d == DropNaEpicenter(df_analyzed.rows)
    IN  IF which = "inland" THEN InlandRows(d)
        ELSE IF which = "offshore" THEN OffshoreRows(d)
        ELSE d

\* C7: every standard deviation get_statistics reports is the population
\* standard deviation (sum of squared deviations divided by N), 0 for one
\* record.
C7_PopulationStd ==
    [][ (GetStatistics /\ err' = "none") =>
          LET all == StatRows("all")'
              inl == StatRows("inland")'
              off == StatRows("offshore")'
              res == results'
          IN  /\ FracEq(res.epicenter_error_std_km,
                        PopulationVariance(Defined(all, "Epicenter_Error_km")))
              /\ FracEq(res.magnitude_error_std,
                        PopulationVariance(Defined(all, "Magnitude_Error")))
              /\ FracEq(res.depth_error_std_km,
                        PopulationVariance(Defined(all, "Depth_Error_km")))
              /\ FracEq(res.processing_time_std_s,
                        PopulationVariance(Defined(all, "Processing_Time")))
              /\ "inland_epicenter_error_std_km" \in res.keys
                    => /\ FracEq(res.inland.epicenter_error_std_km,
                                 PopulationVariance(Defined(inl, "Epicenter_Error_km")))
                       /\ FracEq(res.inland.processing_time_std_s,
                                 PopulationVariance(Defined(inl, "Processing_Time")))
              /\ "offshore_epicenter_error_std_km" \in res.keys
                    => /\ FracEq(res.offshore.epicenter_error_std_km,
                                 PopulationVariance(Defined(off, "Epicenter_Error_km")))
                       /\ FracEq(res.offshore.processing_time_std_s,
                                 PopulationVariance(Defined(off, "Processing_Time"))) ]_vars

\* C9: a record whose type is not Detected (N or L) carries no numeric
\* epicenter, magnitude or depth error after calculate_errors.
C9_NotDetectedHaveNoErrors ==
    ~df_analyzed.isNone =>
        \A k \in 1..Len(df_analyzed.rows) :
            LET r == df_analyzed.rows[k]
            IN  TypeCode(r) \in {"N", "L"}
                   => /\ IsNaN(r.Epicenter_Error_km)
                      /\ IsNaN(r.Magnitude_Error)
                      /\ IsNaN(r.Depth_Error_km)

\* C10: for a Detected record whose alert is present, the epicenter error is
\* calculate_distance(catalog lat, catalog lon, alert lat, alert lon), the
\* magnitude and depth errors are the absolute differences, all three are
\* non-negative, and magnitude 5.5 / depth 10 against 5.3 / 12 gives 0.2 and 2.0.
C10_ErrorsOfDetected ==
    ~df_analyzed.isNone =>
        \A k \in 1..Len(df_analyzed.rows) :
            LET r == df_analyzed.rows[k]
                l == LineOf(r)
            IN  (TypeCode(r) = "Y" /\ Len(l) >= 12) =>
                  /\ r.Epicenter_Error_km
                        = calculate_distance(l[5].val, l[4].val, l[9].val, l[8].val)
                  /\ r.Magnitude_Error
                        = (IF l[6].val >= l[10].val THEN l[6].val - l[10].val
                           ELSE l[10].val - l[6].val)
                  /\ r.Depth_Error_km
                        = (IF l[7].val >= l[11].val THEN l[7].val - l[11].val
                           ELSE l[11].val - l[7].val)
                  /\ r.Epicenter_Error_km >= 0
                  /\ r.Magnitude_Error >= 0
                  /\ r.Depth_Error_km >= 0
                  /\ (l[6].val = 55 /\ l[10].val = 53 /\ l[7].val = 100 /\ l[11].val = 120)
                        => (r.Magnitude_Error = 2 /\ r.Depth_Error_km = 20)

\* calculate_errors has put out the record with catalog M5.5 at 10 km and
\* alert M5.3 at 12 km, and one whose alert is the larger and deeper.
C10_Witness ==
    /\ ~df_analyzed.isNone
    /\ \E k \in 1..Len(df_analyzed.rows) :
          LET r == df_analyzed.rows[k]
          IN  /\ TypeCode(r) = "Y" /\ r.Cat_Mag = 55 /\ r.EEW_Mag = 53
              /\ r.Magnitude_Error = 2 /\ r.Depth_Error_km = 20
              /\ r.Epicenter_Error_km > 0
    /\ \E k \in 1..Len(df_analyzed.rows) :
          LET r == df_analyzed.rows[k]
          IN  TypeCode(r) = "Y" /\ ~IsNaN(r.EEW_Mag) /\ r.Cat_Mag < r.EEW_Mag

-----------------------------------------------------------------------------
(* Properties of the MCP server's cache *)

\* What a statistics tool answers from an analyzer loaded for this call.
FreshResponse(tool, lib) ==
    ResponseOf(tool, get_statistics(calculate_errors(FreshAnalyzer, lib), lib))

\* C8: the cached analyzer is not changed after it is loaded:
\* get_detection_statistics reports what a freshly loaded analyzer reports
\* on the same file, whatever filters earlier analyze_eews_data calls passed.
C8_CacheNotMutated ==
    response.tool = "get_detection_statistics"
        => \E lib \in BOOLEAN : response = FreshResponse(response.tool, lib)

-----------------------------------------------------------------------------
(* Properties of the statistics *)

\* The values of column col over the rows whose alert field `has` is there.
RECURSIVE ValuesWhere(_, _, _)
ValuesWhere(rows, has, col) ==
    IF Len(rows) = 0 THEN << >>
    ELSE (IF IsNaN(rows[1][has]) THEN << >> ELSE << rows[1][col] >>)
            \o ValuesWhere(Tail(rows), has, col)

\* C11: each statistic get_statistics reports for a dimension (mean, standard
\* deviation, median, min, max, RMS) is taken over the records whose alert
\* gives that dimension a value; a record without one enters no statistic,
\* not as zero either.  Stated for the call made in any state the analyzer
\* reaches.
C11_StatisticsOverDefined ==
    \A lib \in BOOLEAN :
      LET after == get_statistics(Self, lib) IN
        (after.err = "none" /\ after.results.isSet) =>
          LET rows == after.df_analyzed.rows
              res == after.results
              epi == ValuesWhere(rows, "EEW_Lat", "Epicenter_Error_km")
              mag == ValuesWhere(rows, "EEW_Mag", "Magnitude_Error")
              dep == ValuesWhere(rows, "EEW_Depth", "Depth_Error_km")
              tim == ValuesWhere(rows, "Processing_Time", "Processing_Time")
          IN  /\ FracEq(res.epicenter_error_mean_km, Mean(epi))
              /\ FracEq(res.epicenter_error_std_km, Std(epi))
              /\ FracEq(res.epicenter_error_median_km, Median(epi))
              /\ res.epicenter_error_max_km = Max(epi)
              /\ res.epicenter_error_min_km = Min(epi)
              /\ FracEq(res.magnitude_error_mean, Mean(mag))
              /\ FracEq(res.magnitude_error_std, Std(mag))
              /\ FracEq(res.magnitude_error_rms, Rms(mag))
              /\ FracEq(res.depth_error_mean_km, Mean(dep))
              /\ FracEq(res.depth_error_std_km, Std(dep))
              /\ FracEq(res.processing_time_mean_s, Mean(tim))
              /\ FracEq(res.processing_time_std_s, Std(tim))
              /\ FracEq(res.processing_time_median_s, Median(tim))
              /\ res.processing_time_max_s = Max(tim)
              /\ res.processing_time_min_s = Min(tim)

\* get_statistics has reported on records of which one has no alert and one
\* has an epicenter error.
C11_Witness ==
    /\ results.isSet /\ ~df_analyzed.isNone
    /\ results = StatsOf(df, df_analyzed)
    /\ \E k \in 1..Len(df_analyzed.rows) : IsNaN(df_analyzed.rows[k].EEW_Lat)
    /\ results.eew_detected >= 1
    /\ ~FracIsNaN(results.epicenter_error_mean_km)
    /\ results.epicenter_error_mean_km[1] > 0

\* The number of rows whose alert field `has` is there.
CountWhere(rows, has) == Cardinality({ k \in 1..Len(rows) : ~IsNaN(rows[k][has]) })

\* C12: in every summary of get_statistics the detected count (the count of
\* the epicenter-error dimension) is at most the number of input records and
\* is the number of records that have a value for the dimension.
C12_CountOfDefined ==
    [][ (GetStatistics /\ err' = "none") =>
          /\ results'.eew_detected <= results'.total_earthquakes
          /\ results'.total_earthquakes = Len(df'.rows)
          /\ results'.eew_detected = CountWhere(df'.rows, "EEW_Lat") ]_vars

-----------------------------------------------------------------------------
(* Properties of the records of load_data *)

AlertColumns == {"EEW_Lon", "EEW_Lat", "EEW_Mag", "EEW_Depth", "Processing_Time"}

\* C13: in every record of load_data the five alert fields are all there or
\* all the missing value; they are there exactly when the line is of Detected
\* type and has at least 12 tokens, and an absent field is never 0.
C13_AlertAllOrNothing ==
    ~df.isNone =>
        \A k \in 1..Len(df.rows) :
            LET r == df.rows[k]
                present == \A c \in AlertColumns : ~IsNaN(r[c])
                absent == \A c \in AlertColumns : IsNaN(r[c])
            IN  /\ present \/ absent
                /\ present <=> (TypeCode(r) = "Y" /\ Len(LineOf(r)) >= 12)
                /\ absent => \A c \in AlertColumns : r[c] # 0

\* The IDs of rows, in order.
IDs(rows) == [k \in 1..Len(rows) |-> rows[k].ID]

\* The rows whose type code is Y.
RowsOfTypeY(rows) == LET isY(r) == TypeCode(r) = "Y" IN SelectSeq(rows, isY)

\* C14: a record is treated as Detected (its alert fields are parsed and it
\* enters the error calculation) exactly when the second character of its
\* first token is 'Y'; a 'Y' elsewhere in the token does not make it Detected.
C14_DetectedIsSecondCharacter ==
    [][ (CalculateErrors /\ err' = "none") =>
          /\ \A k \in 1..Len(df'.rows) :
                LET r == df'.rows[k]
                IN  ~IsNaN(r.EEW_Lat) <=> (TypeCode(r) = "Y" /\ Len(LineOf(r)) >= 12)
          /\ IDs(df_analyzed'.rows) = IDs(RowsOfTypeY(df'.rows)) ]_vars

\* The lines after the first that have at least 7 tokens, in file order.
RECURSIVE RecordLines(_, _)
RecordLines(lines, k) ==
    IF k > Len(lines) THEN << >>
    ELSE (IF Len(lines[k]) >= 7 THEN << lines[k] >> ELSE << >>)
            \o RecordLines(lines, k + 1)

\* C15: load_data discards the first line and gives one record, in file
\* order, for each later line of at least 7 tokens; blank lines and shorter
\* lines give no record and do not stop the reading.
C15_OneRecordPerLine ==
    [][ LoadData =>
          LET lines == RecordLines(file_lines, 2)
          IN  /\ ~df'.isNone
              /\ Len(df'.rows) = Len(lines)
              /\ \A k \in 1..Len(lines) :
                    /\ df'.rows[k].Type = lines[k][1].chars
                    /\ df'.rows[k].ID = lines[k][2].chars ]_vars

-----------------------------------------------------------------------------
(* Properties of a run without boundary points *)

\* The catalog positions of the lines of the file.
CatalogPoints ==
    { << file_lines[k][4].val, file_lines[k][5].val >> :
        k \in { j \in 2..Len(file_lines) : MakesRow(file_lines[j]) } }

InlandSummaryKeys == {"inland_count", "offshore_count"} \cup InlandKeys \cup OffshoreKeys

\* C16: without boundary points check_inland returns None, never true or
\* false; load_data does not fail for the lack of them (it raises only on a
\* token that is no number), and no record has a true or false Is_Inland.
C16_NoBoundaryIsUnknown ==
    Len(boundary_lons) = 0 =>
        /\ \A p \in QueryPts \cup CatalogPoints : check_inland(p[1], p[2]) = "None"
        /\ err = "ValueError" => LoadRaises(file_lines)
        /\ ~df.isNone =>
              /\ "Is_Inland" \notin df.columns
              /\ \A k \in 1..Len(df.rows) : df.rows[k].Is_Inland \notin {"True", "False"}

\* load_data has read two records without boundary points.
C16_Witness ==
    /\ Len(boundary_lons) = 0 /\ ~df.isNone /\ err = "none"
    /\ Len(df.rows) = 2
    /\ \A k \in 1..Len(df.rows) : df.rows[k].Is_Inland = "None"

\* C17: without boundary points the summary of get_statistics has no
\* inland or offshore entry: no counts, and no inland/offshore statistics.
C17_NoBoundaryNoInlandKeys ==
    (Len(boundary_lons) = 0 /\ results.isSet) => results.keys \cap InlandSummaryKeys = {}

\* get_statistics has reported on a detected record without boundary points.
C17_Witness ==
    /\ Len(boundary_lons) = 0 /\ results.isSet
    /\ results.eew_detected >= 1
    /\ results.keys = BaseKeys

-----------------------------------------------------------------------------
(* calculate_distance as an operation of its own *)

MaxGrid == 3

\* The points calculate_distance is called on: a grid of 0.25 degree steps
\* north and east of (121.0, 23.0).
DistancePts == { Pt(50 * i, 50 * j) : i \in 0..MaxGrid, j \in 0..MaxGrid }

\* One call calculate_distance(lat1, lon1, lat2, lon2)
CalculateDistance(lat1, lon1, lat2, lon2) ==
    /\ cd_args' = <<lat1, lon1, lat2, lon2>>
    /\ cd_ret' = calculate_distance(lat1, lon1, lat2, lon2)
    /\ UNCHANGED <<boundaryvars, pipevars, civars, servervars, legacyvars, floatvars, plotvars>>

InitDistance ==
    /\ boundary_lons = << >> /\ boundary_lats = << >>
    /\ CheckInlandIdle
    /\ PipelineIdle
    /\ ServerIdle
    /\ DistanceIdle
    /\ LegacyIdle
    /\ FloatIdle
    /\ PlotIdle

NextDistance ==
    \E p \in DistancePts, q \in DistancePts : CalculateDistance(p[2], p[1], q[2], q[1])

SpecDistance == InitDistance /\ [][NextDistance]_vars

\* C20: calculate_distance(lat, lon, lat, lon) is 0 for every point.
C20_SelfDistanceZero ==
    (cd_args # << >> /\ cd_args[1] = cd_args[3] /\ cd_args[2] = cd_args[4]) => cd_ret = 0

\* calculate_distance has been called on a point and itself, away from the
\* corner of the grid.
C20_Witness ==
    /\ cd_args # << >>
    /\ cd_args[1] = cd_args[3] /\ cd_args[2] = cd_args[4]
    /\ cd_args[1] > 4600 /\ cd_args[2] > 24200
    /\ cd_ret = 0

-----------------------------------------------------------------------------
(* ana_forplot.py: the main loop and its processing-time files *)

MaxLegacyLines == 2

\* Processing times in 0.1 s: 8.0 s, the five edges, and 0.1 s past each edge
ProTimes == { 80, 100, 101, 150, 151, 200, 201, 250, 251, 300, 301 }

\* A Detected line of twelve tokens with the given magnitude and processing time
LegacyY(mag, time) ==
    Catalog(<<"E", "Y">>, "a", Pt(0, 0), mag, 100) \o Alert(Pt(20, 10), 53, 120, time)

LegacyLines == { LegacyY(mag, time) : mag \in {45, 55}, time \in ProTimes } \cup { LineN }

\* The script reads every line of its file.
LegacyFiles == SeqsUpTo(LegacyLines, MaxLegacyLines)

\* if magg1 < 5.0: continue / if depp1 > 40.0: continue
LegacyPassesSelection(parts) == ~(parts[6].val < 50) /\ ~(parts[7].val > 400)

\* rr[1] == 'Y': the second character of the line
LegacyIsY(parts) == Len(parts[1].chars) >= 2 /\ parts[1].chars[2] = "Y"

\* The continue statements of the Y branch: latitude 21 to 26, longitude 119
\* to 123, depth at most 40 km, magnitude at least 5.0
LegacyInRegion(parts) ==
    /\ ~(parts[5].val < 4200) /\ ~(parts[5].val > 5200)
    /\ ~(parts[4].val < 23800) /\ ~(parts[4].val > 24600)
    /\ ~(parts[7].val > 400) /\ ~(parts[6].val < 50)

\* Six files with the first one open at its edge: pro_time < 10.
ProTimeFilesOfOpenFirst(pro_time) ==
    (IF pro_time < 100 THEN {"pro_time_05"} ELSE {})
    \cup (IF pro_time > 100 /\ pro_time <= 150 THEN {"pro_time_10"} ELSE {})
    \cup (IF pro_time > 150 /\ pro_time <= 200 THEN {"pro_time_15"} ELSE {})
    \cup (IF pro_time > 200 /\ pro_time <= 250 THEN {"pro_time_20"} ELSE {})
    \cup (IF pro_time > 250 /\ pro_time <= 300 THEN {"pro_time_25"} ELSE {})
    \cup (IF pro_time > 300 THEN {"pro_time_30"} ELSE {})

\* The six independent if statements: the files a processing time is written to.
ProTimeFilesOf(pro_time) ==
    (IF pro_time <= 100 THEN {"pro_time_05"} ELSE {})
    \cup (IF pro_time > 100 /\ pro_time <= 150 THEN {"pro_time_10"} ELSE {})
    \cup (IF pro_time > 150 /\ pro_time <= 200 THEN {"pro_time_15"} ELSE {})
    \cup (IF pro_time > 200 /\ pro_time <= 250 THEN {"pro_time_20"} ELSE {})
    \cup (IF pro_time > 250 /\ pro_time <= 300 THEN {"pro_time_25"} ELSE {})
    \cup (IF pro_time > 300 THEN {"pro_time_30"} ELSE {})

\* Does the line reach the writes of the Y branch
LegacyWrites(parts) ==
    LegacyPassesSelection(parts) /\ LegacyIsY(parts) /\ LegacyInRegion(parts)

\* One pass of the loop body that writes nothing to the pro_time files: the
\* line is left by a continue, or is not a Y line.
LegacyPassOver ==
    /\ leg_i < Len(file_lines)
    /\ ~LegacyWrites(file_lines[leg_i + 1])
    /\ leg_i' = leg_i + 1
    /\ UNCHANGED <<pro_time_files, boundaryvars, pipevars, civars, servervars, distancevars, floatvars, plotvars>>

\* One pass of the loop body for a Y line that passes the selection; the
\* line is recorded in a file by its number.
LegacyWriteDetected ==
    /\ leg_i < Len(file_lines)
    /\ LegacyWrites(file_lines[leg_i + 1])
    /\ \E pro_time \in { file_lines[leg_i + 1][12].val } :
          pro_time_files' =
              [f \in ProTimeFileNames |->
                  IF f \in ProTimeFilesOf(pro_time)
                  THEN Append(pro_time_files[f], leg_i + 1)
                  ELSE pro_time_files[f]]
    /\ leg_i' = leg_i + 1
    /\ UNCHANGED <<boundaryvars, pipevars, civars, servervars, distancevars, floatvars, plotvars>>

InitLegacy ==
    /\ boundary_lons = << >> /\ boundary_lats = << >>
    /\ file_lines \in LegacyFiles
    /\ df = NoneDF /\ df_analyzed = NoneDF /\ results = NoResults /\ err = "none"
    /\ CheckInlandIdle
    /\ ServerIdle
    /\ DistanceIdle
    /\ LegacyIdle
    /\ FloatIdle
    /\ PlotIdle

NextLegacy == LegacyPassOver \/ LegacyWriteDetected

SpecLegacy == InitLegacy /\ [][NextLegacy]_vars

\* The files line k has been written to.
FilesHolding(k) ==
    { f \in ProTimeFileNames :
        \E j \in 1..Len(pro_time_files[f]) : pro_time_files[f][j] = k }

\* How often line k stands in file f.
TimesWritten(f, k) ==
    Cardinality({ j \in 1..Len(pro_time_files[f]) : pro_time_files[f][j] = k })

\* The bucket of a processing time: <=10, (10,15], (15,20], (20,25], (25,30], >30
BucketOf(t) ==
    IF t <= 100 THEN "pro_time_05"
    ELSE IF t <= 150 THEN "pro_time_10"
    ELSE IF t <= 200 THEN "pro_time_15"
    ELSE IF t <= 250 THEN "pro_time_20"
    ELSE IF t <= 300 THEN "pro_time_25"
    ELSE "pro_time_30"

\* C18 as stated: every Detected record with a processing time is in exactly
\* one of the six buckets, the one closed at its edge; 8.0 s is in <=10.
C18_EveryDetectedInOneBucket ==
    \A k \in 1..leg_i :
        LET parts == file_lines[k]
        IN  (LegacyIsY(parts) /\ Len(parts) >= 12) =>
               /\ FilesHolding(k) = { BucketOf(parts[12].val) }
               /\ TimesWritten(BucketOf(parts[12].val), k) = 1

\* C18 amended: every Detected record with a processing time that passes the
\* selection of the script (magnitude at least 5.0, depth at most 40 km,
\* latitude 21 to 26, longitude 119 to 123) is in exactly one of the six
\* buckets, the one closed at its edge, and 8.0 s is in <=10; a record the
\* selection leaves out is in none.
C18_SelectedDetectedInOneBucket ==
    \A k \in 1..leg_i :
        LET parts == file_lines[k]
            selected == parts[6].val >= 50 /\ parts[7].val <= 400
                        /\ parts[5].val >= 4200 /\ parts[5].val <= 5200
                        /\ parts[4].val >= 23800 /\ parts[4].val <= 24600
        IN  IF LegacyIsY(parts) /\ Len(parts) >= 12 /\ selected
            THEN /\ FilesHolding(k) = { BucketOf(parts[12].val) }
                 /\ TimesWritten(BucketOf(parts[12].val), k) = 1
                 /\ parts[12].val = 80 => FilesHolding(k) = {"pro_time_05"}
            ELSE FilesHolding(k) = {}

\* The loop has written an 8.0 s record to <=10 and a record at the edge of
\* 10 s to the same file.
C18_Witness ==
    /\ leg_i = 2
    /\ Len(file_lines[1]) >= 12 /\ Len(file_lines[2]) >= 12
    /\ file_lines[1][12].val = 80 /\ file_lines[2][12].val = 100
    /\ pro_time_files["pro_time_05"] = <<1, 2>>

-----------------------------------------------------------------------------
(* check_inland away from the boundary *)

\* p lies outside the bounding box of the boundary points.
OutsideBoundingBox(p) ==
    \/ \A i \in 1..Len(boundary_lons) : p[1] < boundary_lons[i]
    \/ \A i \in 1..Len(boundary_lons) : p[1] > boundary_lons[i]
    \/ \A i \in 1..Len(boundary_lats) : p[2] < boundary_lats[i]
    \/ \A i \in 1..Len(boundary_lats) : p[2] > boundary_lats[i]

\* p is farther than 1.0 km from every boundary point.
FarFromBoundary(p) ==
    \A i \in 1..Len(boundary_lons) :
        calculate_distance(p[2], p[1], boundary_lats[i], boundary_lons[i]) > 100

\* C19: for a point outside the bounding box of the boundary points and
\* farther than 1.0 km from every one of them, check_inland returns false.
C19_FarOutsideIsOffshore ==
    (ci_pc = "done" /\ Len(boundary_lons) > 0
        /\ OutsideBoundingBox(CiPoint) /\ FarFromBoundary(CiPoint))
      => ci_ret = "False"

\* check_inland has returned for a point outside the bounding box of three or
\* more boundary points that lie in more than one direction from it.
C19_Witness ==
    /\ ci_pc = "done" /\ Len(boundary_lons) >= 3
    /\ OutsideBoundingBox(CiPoint) /\ FarFromBoundary(CiPoint)
    /\ \E i, j \in 1..Len(boundary_lons) :
          boundary_lats[i] < ci_lat /\ boundary_lats[j] > ci_lat
    /\ ci_ret = "False"

\* C21: calculate_distance(lat1, lon1, lat2, lon2) is
\* calculate_distance(lat2, lon2, lat1, lon1) for all pairs of points.
C21_DistanceSymmetric ==
    cd_args # << >> =>
        cd_ret = calculate_distance(cd_args[3], cd_args[4], cd_args[1], cd_args[2])

\* calculate_distance has been called on two points that differ in latitude
\* and in longitude.
C21_Witness ==
    /\ cd_args # << >>
    /\ cd_args[1] # cd_args[3] /\ cd_args[2] # cd_args[4]
    /\ cd_ret > 0

-----------------------------------------------------------------------------
(* Magnitude-error mean and RMS in binary floating point.                   *)
(*                                                                          *)
(* A Python float is an IEEE-754 binary number whose significand has 53     *)
(* bits; every operation returns the exact result rounded to the nearest    *)
(* representable number, ties to the even significand.  Here a float is     *)
(* <<m, e>>, of value m * 2^e, with m = 0 or 2^(MantissaBits-1) <= m <      *)
(* 2^MantissaBits, and the operations round in the same way to              *)
(* MantissaBits bits.  Only non-negative numbers occur.                     *)

MantissaBits == 5
MaxValues == 2

RECURSIVE Pow2(_)
Pow2(k) == IF k <= 0 THEN 1 ELSE 2 * Pow2(k - 1)

RECURSIVE BitLength(_)
BitLength(n) == IF n = 0 THEN 0 ELSE 1 + BitLength(n \div 2)

RECURSIVE Isqrt(_)
\* The integer part of the square root of n.
Isqrt(n) ==
    IF n < 2 THEN n
    ELSE LET s == 2 * Isqrt(n \div 4)
         IN  IF (s + 1) * (s + 1) <= n THEN s + 1 ELSE s

FloatZero == <<0, 0>>

\* The float nearest to n * 2^e, ties to even.
FloatRound(n, e) ==
    IF n = 0 THEN FloatZero
    ELSE LET k == BitLength(n) - MantissaBits
         IN  IF k <= 0
             THEN <<n * Pow2(-k), e + k>>
             ELSE LET q == n \div Pow2(k)
                      r == n % Pow2(k)
                      half == Pow2(k - 1)
                      q2 == IF r > half \/ (r = half /\ q % 2 = 1) THEN q + 1 ELSE q
                  IN  IF q2 = Pow2(MantissaBits)
                      THEN <<q2 \div 2, e + k + 1>>
                      ELSE <<q2, e + k>>

\* The smaller exponent of two floats, zero having none.
FloatMinExp(x, y) ==
    IF x[1] = 0 THEN y[2]
    ELSE IF y[1] = 0 THEN x[2]
    ELSE IF x[2] < y[2] THEN x[2] ELSE y[2]

\* The integer n with x = n * 2^e, for e no larger than x's exponent.
FloatAlign(x, e) == IF x[1] = 0 THEN 0 ELSE x[1] * Pow2(x[2] - e)

FloatLess(x, y) ==
    LET e == FloatMinExp(x, y) IN FloatAlign(x, e) < FloatAlign(y, e)

\* x + y
FloatAdd(x, y) ==
    LET e == FloatMinExp(x, y) IN FloatRound(FloatAlign(x, e) + FloatAlign(y, e), e)

\* abs(x - y)
FloatAbsSub(x, y) ==
    LET e == FloatMinExp(x, y) IN FloatRound(Abs(FloatAlign(x, e) - FloatAlign(y, e)), e)

\* x * y
FloatMul(x, y) == FloatRound(x[1] * y[1], x[2] + y[2])

\* (n * 2^e) / d for integers n >= 0 and d > 0: the quotient is taken to two
\* bits more than the significand, a last bit recording a remainder.
FloatDivInt(n, e, d) ==
    IF n = 0 THEN FloatZero
    ELSE LET s == MantissaBits + 1 + BitLength(d)
             q == (n * Pow2(s)) \div d
             sticky == IF (n * Pow2(s)) % d = 0 THEN 0 ELSE 1
         IN  FloatRound(2 * q + sticky, e - s - 1)

\* np.sqrt(x)
FloatSqrt(x) ==
    IF x[1] = 0 THEN FloatZero
    ELSE LET odd == x[2] % 2 = 1
             m == (IF odd THEN 2 * x[1] ELSE x[1]) * Pow2(2 * (MantissaBits + 1))
             e == (IF odd THEN x[2] - 1 ELSE x[2]) - 2 * (MantissaBits + 1)
             r == Isqrt(m)
             sticky == IF r * r = m THEN 0 ELSE 1
         IN  FloatRound(2 * r + sticky, (e \div 2) - 1)

\* float(token) of a decimal token with one digit after the point, given in
\* tenths.
FloatOfTenths(t) == FloatDivInt(t, 0, 10)

\* calculate_errors: Magnitude_Error of a record.
FloatMagnitudeError(pair) == FloatAbsSub(FloatOfTenths(pair[1]), FloatOfTenths(pair[2]))

FloatMagnitudeErrors(pairs) == [k \in 1..Len(pairs) |-> FloatMagnitudeError(pairs[k])]

RECURSIVE FloatSum(_)
\* The values added one after the other, from the first.
FloatSum(xs) ==
    IF Len(xs) = 0 THEN FloatZero
    ELSE FloatAdd(FloatSum(SubSeq(xs, 1, Len(xs) - 1)), xs[Len(xs)])

FloatSquares(xs) == [k \in 1..Len(xs) |-> FloatMul(xs[k], xs[k])]

\* Series.mean()
FloatMean(xs) == LET s == FloatSum(xs) IN FloatDivInt(s[1], s[2], Len(xs))

\* The mean of the squares, the root not taken.
FloatRmsNoRoot(xs) == FloatMean(FloatSquares(xs))

\* np.sqrt(np.mean(x**2))
FloatRms(xs) == FloatSqrt(FloatMean(FloatSquares(xs)))

\* Catalog and EEW magnitudes of the detected records, in tenths.
FloatMagPairs == { <<c, w>> : c \in {52, 53, 60}, w \in {31, 58, 74} }

\* get_statistics over the detected records, the two magnitude-error entries.
GetStatisticsFloat ==
    /\ ~float_results.isSet
    /\ LET xs == FloatMagnitudeErrors(float_mags)
       IN  float_results' = [isSet |-> TRUE,
                             magnitude_error_mean |-> FloatMean(xs),
                             magnitude_error_rms |-> FloatRms(xs)]
    /\ UNCHANGED <<float_mags, boundaryvars, pipevars, civars, servervars,
                   distancevars, legacyvars, plotvars>>

InitFloat ==
    /\ float_mags \in UNION { [1..n -> FloatMagPairs] : n \in 1..MaxValues }
    /\ float_results = NoFloatResults
    /\ boundary_lons = << >> /\ boundary_lats = << >>
    /\ CheckInlandIdle
    /\ PipelineIdle
    /\ ServerIdle
    /\ DistanceIdle
    /\ LegacyIdle
    /\ PlotIdle

NextFloat == GetStatisticsFloat

SpecFloat == InitFloat /\ [][NextFloat]_vars

-----------------------------------------------------------------------------
(* get_missed_events, get_detected_events *)

\* str.contains('N|L'): an N or an L anywhere in the type
ContainsNorL(chars) == \E i \in 1..Len(chars) : chars[i] \in {"N", "L"}

IsMissedRow(r) == ContainsNorL(r.Type)

\* The analyzer after the call and the rows returned (none if it raised).
get_missed_events(an, lib) ==
    LET a1 == EnsureLoaded(an, lib)
    IN  IF a1.err # "none" THEN [an |-> a1, ret |-> << >>]
        ELSE IF "Type" \notin a1.df.columns
             THEN [an |-> [a1 EXCEPT !.err = "KeyError"], ret |-> << >>]
        ELSE [an |-> a1, ret |-> SelectSeq(a1.df.rows, IsMissedRow)]

get_detected_events(an, lib) ==
    LET a1 == EnsureLoaded(an, lib)
    IN  IF a1.err # "none" THEN [an |-> a1, ret |-> << >>]
        ELSE IF "Type" \notin a1.df.columns
             THEN [an |-> [a1 EXCEPT !.err = "KeyError"], ret |-> << >>]
        ELSE [an |-> a1, ret |-> SelectSeq(a1.df.rows, IsDetectedRow)]

-----------------------------------------------------------------------------
(* EEWSPlotter.create_all_plots, one plot function at a time *)

\* The plot functions in the order create_all_plots calls them.
PlotFunctions ==
    << "plot_epicenter_errors", "plot_magnitude_comparison", "plot_processing_time_map",
       "plot_missed_events", "plot_processing_time_histogram", "plot_error_distributions" >>

\* The calls a plot function makes on the analyzer before it draws:
\* plot_missed_events asks for the detected and the missed events, the others
\* call calculate_errors if df_analyzed is not there; plot_error_distributions
\* divides by len(self.analyzer.df).
PlotPrepares(k, an, lib) ==
    IF k = 4
    THEN LET a1 == get_detected_events(an, lib).an
         IN  IF a1.err # "none" THEN a1 ELSE get_missed_events(a1, lib).an
    ELSE LET a1 == EnsureAnalyzed(an, lib)
         IN  IF a1.err = "none" /\ k = 6 /\ Len(a1.df.rows) = 0
             THEN [a1 EXCEPT !.err = "ZeroDivisionError"]
             ELSE a1

\* Every call but the last is inside a try statement.
InTryButLast(k) == k < 6

\* Every call of a plot function is inside try ... except Exception.
InTry(k) == TRUE

\* plotter.create_all_plots(output_dir): the directory is made.
CreateAllPlots ==
    /\ plot_pc = 0
    /\ plot_pc' = 1
    /\ err' = "none"
    /\ UNCHANGED <<plots_attempted, plot_warnings, file_lines, df, df_analyzed, results,
                   boundaryvars, civars, servervars, distancevars, legacyvars, floatvars>>

\* The k-th try statement: the plot function prepares, then draws; the
\* drawing library raises or not.  A caught exception is printed as a
\* warning and the next statement follows; one that is not caught leaves
\* create_all_plots.
PlotStep ==
    /\ plot_pc \in 1..6
    /\ \E lib \in BOOLEAN, draws \in BOOLEAN :
          LET k == plot_pc
              a1 == PlotPrepares(k, Self, lib)
              raised == IF a1.err # "none" THEN a1.err
                        ELSE IF draws THEN "none" ELSE "Exception"
          IN  /\ df' = a1.df
              /\ df_analyzed' = a1.df_analyzed
              /\ results' = a1.results
              /\ plots_attempted' = Append(plots_attempted, PlotFunctions[k])
              /\ IF raised = "none"
                 THEN err' = "none" /\ plot_pc' = k + 1 /\ UNCHANGED plot_warnings
                 ELSE IF InTry(k)
                 THEN /\ err' = "none"
                      /\ plot_pc' = k + 1
                      /\ plot_warnings' = plot_warnings \cup {PlotFunctions[k]}
                 ELSE err' = raised /\ plot_pc' = 7 /\ UNCHANGED plot_warnings
    /\ UNCHANGED <<file_lines, boundaryvars, civars, servervars, distancevars, legacyvars,
                   floatvars>>

\* analyze_eews.py before the plots: the analyzer's methods.
AnalyzeBeforePlots ==
    /\ plot_pc = 0
    /\ \/ LoadData
       \/ CalculateErrors
       \/ GetStatistics

\* An analyzer constructed without a boundary file.
InitPlots ==
    /\ boundary_lons = << >> /\ boundary_lats = << >>
    /\ file_lines \in Files
    /\ df = NoneDF /\ df_analyzed = NoneDF /\ results = NoResults /\ err = "none"
    /\ CheckInlandIdle
    /\ ServerIdle
    /\ DistanceIdle
    /\ LegacyIdle
    /\ FloatIdle
    /\ PlotIdle

NextPlots ==
    \/ AnalyzeBeforePlots
    \/ CreateAllPlots
    \/ PlotStep

SpecPlots == InitPlots /\ [][NextPlots]_vars

\* When create_all_plots is left, the six plot functions have been attempted
\* in order and no exception goes to the caller.
AllPlotsAttempted == plot_pc = 7 => plots_attempted = PlotFunctions /\ err = "none"

\* A try statement of create_all_plots goes on to the next, whatever the plot
\* function did, with the statistics as they were.
PlotStepContained ==
    [][ (plot_pc \in 1..6) =>
          ( /\ plot_pc' = plot_pc + 1
            /\ plots_attempted' = Append(plots_attempted, PlotFunctions[plot_pc])
            /\ err' = "none"
            /\ results' = results ) ]_vars

\* C23: in create_all_plots an exception raised by one plot function does
\* not keep the remaining plot functions from being attempted (the next one
\* is attempted next, and all six have been attempted in order when
\* create_all_plots is left), does not reach the caller, and leaves the
\* statistics the analyzer has computed as they were.
C23_PlotExceptionContained == []AllPlotsAttempted /\ PlotStepContained

\* create_all_plots has returned after the statistics were computed, and the
\* first and the last plot function raised.
C23_Witness ==
    /\ plot_pc = 7
    /\ results.isSet
    /\ {PlotFunctions[1], PlotFunctions[6]} \subseteq plot_warnings
    /\ plots_attempted = PlotFunctions

-----------------------------------------------------------------------------
(* ana_forplot.py: delaz and check_seis_r *)

\* delaz(elat, elon, slat, slon), in 0.01 km
delaz(elat, elon, slat, slon) ==
    LET av2 == elat + slat
        a == CoefA(av2)
        b == CoefB(av2)
        dlat == slat - elat
        dlon == slon - elon
        dx == FDiv(FDiv(a, 1000) * dlon * 3, 100000)
        dy == FDiv(FDiv(b, 1000) * dlat * 3, 100000)
        delta == Sqrt(dx * dx + dy * dy)
    IN  delta

\* The five tests of one iteration of check_seis_r; the zeros appended at
\* each iteration go to the end of sta, so sta[0..4] keep what was set.
SeisStaUpdate(s, x, y, dist, r) ==
    << IF x > 0 /\ y > 0 THEN 1 ELSE s[1],
       IF x < 0 /\ y < 0 THEN 1 ELSE s[2],
       IF x > 0 /\ y < 0 THEN 1 ELSE s[3],
       IF x < 0 /\ y > 0 THEN 1 ELSE s[4],
       IF dist < r THEN 1 ELSE s[5] >>

RECURSIVE CheckSeisRLoop(_, _, _, _, _, _, _, _)
\* for i in range(1, num_boundary), with i one more than in the script
CheckSeisRLoop(tlon, tlat, elon, elat, num_boundary, r, i, s) ==
    IF i > num_boundary THEN 0
    ELSE LET s2 == SeisStaUpdate(s, tlon[i] - elon, tlat[i] - elat,
                                 delaz(elat, elon, tlat[i], tlon[i]), r)
         IN  IF s2[1] * s2[2] * s2[3] * s2[4] = 1 \/ s2[5] = 1 THEN 1
             ELSE CheckSeisRLoop(tlon, tlat, elon, elat, num_boundary, r, i + 1, s2)

check_seis_r(tlon, tlat, elon, elat, num_boundary, r) ==
    CheckSeisRLoop(tlon, tlat, elon, elat, num_boundary, r, FirstIndexLegacy, ZeroSta)

\* C24: for every boundary sequence and every point, check_inland returns
\* true exactly when check_seis_r of ana_forplot.py, called with the same
\* boundary lists, num_boundary the number of boundary points and r = 1.0,
\* returns 1.
C24_SameAsCheckSeisR ==
    ci_pc = "done" =>
        ((ci_ret = "True") <=>
            check_seis_r(boundary_lons, boundary_lats, ci_lon, ci_lat,
                         Len(boundary_lons), 100) = 1)

-----------------------------------------------------------------------------
(* The course of one check_inland call *)

\* A call of check_inland runs to its return statement: the for loop is
\* sequential code with a bounded range.
\* Boundary points, one in each quadrant around Pt(2, 1) and none within
\* 1.0 km of it; Pt(1, 3) is 0.75 km from Pt(2, 2).
CoursePts == { Pt(4, 2), Pt(0, 0), Pt(4, 0), Pt(1, 3) }

InitInlandFair ==
    /\ \E pts \in SeqsUpTo(CoursePts, MaxBoundary) :
          boundary_lons = Lons(pts) /\ boundary_lats = Lats(pts)
    /\ CheckInlandIdle
    /\ PipelineIdle
    /\ ServerIdle
    /\ DistanceIdle
    /\ LegacyIdle
    /\ FloatIdle
    /\ PlotIdle

SpecInlandFair ==
    InitInlandFair /\ [][NextInland]_vars
        /\ WF_vars(CheckInlandIter) /\ WF_vars(CheckInlandReturn)

\* The first k boundary points.
FirstPoints(k) == SubSeq(BoundaryPoints, 1, k)

\* Among the first k boundary points all four quadrants around the point are
\* taken, or one of them is less than 1.0 km away.
DecidedThrough(k) ==
    QuadrantsCovered(CiPoint, FirstPoints(k)) \/ NearBoundary(CiPoint, FirstPoints(k))

\* The boundary points are examined in their order, each once.
VisitedInOrder == ci_visited = [k \in 1..Len(ci_visited) |-> k]

\* No boundary point is examined after one at which the call was decided.
NoneAfterDecided == \A k \in 1..(Len(ci_visited) - 1) : ~DecidedThrough(k)

\* The call returns inland at the first decided point, or offshore after
\* every point when none decides.
ReturnsWhereDecided ==
    (ci_pc = "done" /\ Len(boundary_lons) > 0) =>
        IF \E k \in 1..Len(boundary_lons) : DecidedThrough(k)
        THEN /\ ci_ret = "True"
             /\ DecidedThrough(Len(ci_visited))
        ELSE /\ ci_ret = "False"
             /\ Len(ci_visited) = Len(boundary_lons)

\* A flag that is set stays set.
FlagsKept == [][ \A j \in 1..5 : sta[j] = 1 => sta'[j] = 1 ]_vars

\* C25: check_inland visits the boundary points in their given order, never
\* clears a quadrant flag or the near-boundary flag once set, examines no
\* boundary point after the first at which all four quadrant flags or the
\* near-boundary flag are set and returns inland there; if no boundary point
\* reaches that condition it visits every point once and returns offshore.
C25_VisitsInOrderUntilDecided ==
    /\ [](VisitedInOrder /\ NoneAfterDecided /\ ReturnsWhereDecided)
    /\ FlagsKept
    /\ (ci_pc = "loop") ~> (ci_pc = "done")

\* A call decided by the near-boundary flag at its third point or later,
\* before the last, with a quadrant flag kept from an earlier point.
C25_Witness ==
    /\ ci_pc = "done"
    /\ ci_ret = "True"
    /\ Len(ci_visited) >= 3
    /\ Len(ci_visited) < Len(boundary_lons)
    /\ sta[5] = 1
    /\ sta[1] + sta[2] + sta[3] + sta[4] >= 2

-----------------------------------------------------------------------------
(* Properties of the summary counts *)

\* C26: after any sequence of load_data, replacement of df by a filtered
\* subset, calculate_errors and get_statistics, every summary has
\* total_earthquakes = eew_detected + missed_events, missed_events >= 0 and
\* 0 <= detection_rate <= 100.
C26_SummaryCountsConsistent ==
    results.isSet =>
        /\ results.total_earthquakes = results.eew_detected + results.missed_events
        /\ results.missed_events >= 0
        /\ results.detection_rate[1] >= 0
        /\ results.detection_rate[1] <= 100 * results.detection_rate[2]

\* The records of a frame that a selection returned.
Among(rows) == { rows[k] : k \in 1..Len(rows) }

\* C27: for every loaded record set whose first tokens have a second
\* character in {Y, N, L}, the results of get_detected_events and
\* get_missed_events are disjoint and together contain every record, so
\* their lengths add up to the number of records.
C27_DetectedMissedPartition ==
    (/\ ~df.isNone
     /\ "Type" \in df.columns
     /\ \A k \in 1..Len(df.rows) : TypeCode(df.rows[k]) \in {"Y", "N", "L"})
    => \A lib \in BOOLEAN :
          LET detected == get_detected_events(Self, lib).ret
              missed == get_missed_events(Self, lib).ret
          IN  /\ Among(detected) \cap Among(missed) = {}
              /\ Among(detected) \cup Among(missed) = Among(df.rows)
              /\ Len(detected) + Len(missed) = Len(df.rows)

\* C28: whenever the summary contains the inland and offshore counts,
\* inland_count + offshore_count = eew_detected.
C28_InlandOffshoreSumToDetected ==
    (results.isSet /\ {"inland_count", "offshore_count"} \subseteq results.keys)
        => results.inland_count + results.offshore_count = results.eew_detected

\* A summary with inland and offshore detected records.
C28_Witness ==
    /\ results.isSet
    /\ {"inland_count", "offshore_count"} \subseteq results.keys
    /\ results.inland_count >= 1
    /\ results.offshore_count >= 1

-----------------------------------------------------------------------------
(* Frame properties *)

\* A frame without error fields.
Plain(frame) ==
    /\ frame.columns \cap ErrorColumns = {}
    /\ \A k \in 1..Len(frame.rows) : DOMAIN frame.rows[k] \cap ErrorColumns = {}

\* C29: calculate_errors and get_statistics leave the analyzer's df
\* unchanged (a df that is still None is set by the load_data they call):
\* the error fields are added only to df_analyzed, never to the records of
\* df.  Stated for the call made in any state the analyzer reaches.
C29_DfUnchanged ==
    \A lib \in BOOLEAN :
        LET loaded == IF df.isNone THEN load_data(Self, lib).df ELSE df
        IN  /\ calculate_errors(Self, lib).df = loaded
            /\ get_statistics(Self, lib).df = loaded
            /\ Plain(loaded)

\* Errors and statistics have been computed: df_analyzed has the error
\* fields of a record, df has the records without them.
C29_Witness ==
    /\ results.isSet
    /\ ~df.isNone /\ Len(df.rows) >= 2
    /\ ~df_analyzed.isNone /\ Len(df_analyzed.rows) >= 1
    /\ ErrorColumns \subseteq df_analyzed.columns
    /\ ErrorColumns \subseteq DOMAIN df_analyzed.rows[1]
    /\ df.columns \cap ErrorColumns = {}

\* C30: once the analyzer is constructed no operation (check_inland,
\* load_data, calculate_errors, get_statistics, the filter methods) changes
\* the loaded boundary point sequences: length, order and values stay as
\* loaded.
C30_BoundaryNeverChanges ==
    [][ boundary_lons' = boundary_lons /\ boundary_lats' = boundary_lats ]_vars

\* Records have been classified against the loaded boundary (check_inland
\* called for each), filtered and summarised.
C30_Witness ==
    /\ BoundaryPoints = SquareRing
    /\ ~df.isNone /\ "Is_Inland" \in df.columns
    /\ Len(df.rows) = 1
    /\ ~df_analyzed.isNone /\ Len(df_analyzed.rows) = 2
    /\ results.isSet

=============================================================================
